---- MODULE Spec2Model ----
(***************************************************************************)
(* Kana battle quiz: answer matcher and combat state machine.              *)
(*                                                                         *)
(* A string is a sequence of one-character strings, so that substring,     *)
(* trim, toLowerCase and the anchored regular-expression match can be      *)
(* computed the way the TypeScript computes them.                          *)
(***************************************************************************)
EXTENDS Integers, Sequences, FiniteSets, TLC

(***************************************************************************)
(* Bounds of the model                                                     *)
(***************************************************************************)
MaxInputLen == 4        \* longest typed answer (before decoration) in SpecMatch
MaxPromptLen == 2       \* longest prompt drawn in SpecMatch

(***************************************************************************)
(* The character catalog (~/data/kana).  Each entry has an id and a        *)
(* non-empty list of accepted romaji, in catalog order.                    *)
(*   n  : one accepted romaji is a proper prefix of another                *)
(*   sa : accepted romaji of different lengths, none a prefix of another   *)
(***************************************************************************)
KanaIds == {"a", "n", "na", "sa"}

Romaji ==
  [id \in KanaIds |->
     CASE id = "a"  -> << <<"a">> >>
       [] id = "n"  -> << <<"n">>, <<"n", "n">> >>
       [] id = "na" -> << <<"n", "a">> >>
       [] id = "sa" -> << <<"s", "a">>, <<"s", "s", "a">> >>]

LowerLetters == {"a", "n", "s"}

\* the katakana of the catalog; the kana of KanaIds are hiragana
KatakanaIds == {"a_k"}

\* hiragana of the catalog that no word of the corpus contains
RareKanaIds == {"e", "i", "ka", "ki", "ku", "o", "u"}

\* a kana of the catalog whose glyph has two code units, the first of them
\* the glyph of ki
DigraphIds == {"kya"}

\* KanaCharacter.type
kanaType(id) == IF id \in KatakanaIds THEN "katakana" ELSE "hiragana"

\* allKanaCharacters.map((k) => k.id).sort(): the ids of the catalog in the
\* order of Array.prototype.sort(), by UTF-16 code units
SortedKanaIds ==
  <<"a", "a_k", "e", "i", "ka", "ki", "ku", "kya", "n", "na", "o", "sa", "u">>

(***************************************************************************)
(* String primitives of the JavaScript runtime                             *)
(***************************************************************************)
Min(a, b) == IF a < b THEN a ELSE b

Max(a, b) == IF a > b THEN a ELSE b

Clamp(i, len) == Max(0, Min(i, len))

\* String.prototype.substring(start, end): both indices are clamped to
\* [0, length] and swapped when start > end.
substring(s, start, end) ==
  LET a == Clamp(start, Len(s))
      b == Clamp(end, Len(s))
      lo == Min(a, b)
      hi == Max(a, b)
  IN SubSeq(s, lo + 1, hi)

\* String.prototype.toLowerCase on the letters the model types
LowerChar(c) == IF c = "A" THEN "a" ELSE IF c = "N" THEN "n" ELSE IF c = "S" THEN "s" ELSE c

toLowerCase(s) == [i \in 1..Len(s) |-> LowerChar(s[i])]

RECURSIVE trimStart(_)
trimStart(s) == IF s # <<>> /\ Head(s) = " " THEN trimStart(Tail(s)) ELSE s

RECURSIVE trimEnd(_)
trimEnd(s) ==
  IF s # <<>> /\ s[Len(s)] = " " THEN trimEnd(SubSeq(s, 1, Len(s) - 1)) ELSE s

\* String.prototype.trim
trim(s) == trimEnd(trimStart(s))

\* input.trim().toLowerCase()
Normalize(input) == toLowerCase(trim(input))

IsPrefix(r, s) == Len(r) <= Len(s) /\ SubSeq(s, 1, Len(r)) = r

(***************************************************************************)
(* [...kana.romaji].map(toLowerCase).sort((a, b) => b.length - a.length)   *)
(* Array.prototype.sort is stable: equal lengths keep catalog order.       *)
(***************************************************************************)
InsertByLengthDesc(r, sorted) ==
  LET k == CHOOSE i \in 0..Len(sorted) :
             /\ \A j \in 1..i : Len(sorted[j]) >= Len(r)
             /\ i < Len(sorted) => Len(sorted[i + 1]) < Len(r)
  IN SubSeq(sorted, 1, k) \o <<r>> \o SubSeq(sorted, k + 1, Len(sorted))

RECURSIVE SortByLengthDesc(_)
SortByLengthDesc(rs) ==
  IF rs = <<>> THEN <<>>
  ELSE InsertByLengthDesc(rs[Len(rs)], SortByLengthDesc(SubSeq(rs, 1, Len(rs) - 1)))

sortedRomaji(id) ==
  SortByLengthDesc([i \in 1..Len(Romaji[id]) |-> toLowerCase(Romaji[id][i])])

\* remainingInput.match(new RegExp(`^(${escapedRomaji.join("|")})`, "i")):
\* the alternatives are literals tried in order at position 0; the result is
\* the first alternative that is a prefix of the remaining input (match[1]),
\* or null (here <<>>, which no accepted romaji equals).
RegexMatch(alternatives, remainingInput) ==
  LET hits == {i \in 1..Len(alternatives) : IsPrefix(alternatives[i], remainingInput)}
  IN IF hits = {} THEN <<>>
     ELSE alternatives[CHOOSE i \in hits : \A j \in hits : i <= j]

\* Math.max(...kana.romaji.map((r) => r.length))
maxRomajiLength(id) ==
  LET lens == {Len(Romaji[id][i]) : i \in 1..Len(Romaji[id])}
  IN CHOOSE m \in lens : \A l \in lens : l <= m

\* mutant: a matched kana advances the cursor by its longest romaji
ValidateIterAdvanceMax(st, id, normalizedInput) ==
  LET remainingInput == substring(normalizedInput, st.inputIndex, Len(normalizedInput))
      match == RegexMatch(sortedRomaji(id), remainingInput)
      endIndex == Min(st.inputIndex + maxRomajiLength(id), Len(normalizedInput))
  IN IF match # <<>>
     THEN [inputIndex |-> st.inputIndex + maxRomajiLength(id),
           matches |-> Append(st.matches, TRUE)]
     ELSE [inputIndex |-> st.inputIndex + Max(1, endIndex - st.inputIndex),
           matches |-> Append(st.matches, FALSE)]

\* mutant: a failed kana consumes a single character
ValidateIterAdvanceOne(st, id, normalizedInput) ==
  LET remainingInput == substring(normalizedInput, st.inputIndex, Len(normalizedInput))
      match == RegexMatch(sortedRomaji(id), remainingInput)
  IN IF match # <<>>
     THEN [inputIndex |-> st.inputIndex + Len(match),
           matches |-> Append(st.matches, TRUE)]
     ELSE [inputIndex |-> st.inputIndex + 1,
           matches |-> Append(st.matches, FALSE)]

\* mutant: a failed kana consumes what is left, without the Math.max(1, ...)
ValidateIterNoFloor(st, id, normalizedInput) ==
  LET remainingInput == substring(normalizedInput, st.inputIndex, Len(normalizedInput))
      match == RegexMatch(sortedRomaji(id), remainingInput)
      endIndex == Min(st.inputIndex + maxRomajiLength(id), Len(normalizedInput))
  IN IF match # <<>>
     THEN [inputIndex |-> st.inputIndex + Len(match),
           matches |-> Append(st.matches, TRUE)]
     ELSE [inputIndex |-> st.inputIndex + (endIndex - st.inputIndex),
           matches |-> Append(st.matches, FALSE)]

(***************************************************************************)
(* validateInputWithDetails: one iteration of its for-of loop.             *)
(* st = [inputIndex, matches]                                              *)
(***************************************************************************)
ValidateIter(st, id, normalizedInput) ==
  LET remainingInput == substring(normalizedInput, st.inputIndex, Len(normalizedInput))
      match == RegexMatch(sortedRomaji(id), remainingInput)
  IN IF match # <<>>
     THEN [inputIndex |-> st.inputIndex + Len(match),
           matches |-> Append(st.matches, TRUE)]
     ELSE LET endIndex == Min(st.inputIndex + maxRomajiLength(id), Len(normalizedInput))
          IN [inputIndex |-> st.inputIndex + Max(1, endIndex - st.inputIndex),
              matches |-> Append(st.matches, FALSE)]

RECURSIVE ValidateLoop(_, _, _)
ValidateLoop(st, prompt, normalizedInput) ==
  IF prompt = <<>> THEN st
  ELSE ValidateLoop(ValidateIter(st, Head(prompt), normalizedInput), Tail(prompt), normalizedInput)

AllTrue(bs) == \A i \in 1..Len(bs) : bs[i]

\* matches.every((m) => m) && inputIndex === normalizedInput.length
ValidateResult(st, normalizedInput) ==
  [allCorrect |-> AllTrue(st.matches) /\ st.inputIndex = Len(normalizedInput),
   matches |-> st.matches]

validateInputWithDetails(prompt, input) ==
  IF Len(prompt) = 0 THEN [allCorrect |-> FALSE, matches |-> <<>>]
  ELSE IF Normalize(input) = <<>> THEN [allCorrect |-> FALSE, matches |-> <<>>]
  ELSE ValidateResult(ValidateLoop([inputIndex |-> 0, matches |-> <<>>], prompt, Normalize(input)),
                      Normalize(input))

(***************************************************************************)
(* The inline matcher of checkAnswers: one iteration of its forEach.       *)
(* st = [inputIndex, allCorrect, correctCount, matched]                    *)
(* (matched collects isCorrect of every kana, in order)                    *)
(***************************************************************************)
CheckIter(st, id, normalizedInput) ==
  LET remainingInput == substring(normalizedInput, st.inputIndex, Len(normalizedInput))
      match == RegexMatch(sortedRomaji(id), remainingInput)
  IN IF match # <<>>
     THEN [inputIndex |-> st.inputIndex + Len(match),
           allCorrect |-> st.allCorrect,
           correctCount |-> st.correctCount + 1,
           matched |-> Append(st.matched, TRUE)]
     ELSE LET endIndex == Min(st.inputIndex + maxRomajiLength(id), Len(normalizedInput))
              matchedRomaji == substring(normalizedInput, st.inputIndex, endIndex)
          IN [inputIndex |-> st.inputIndex + Max(1, Len(matchedRomaji)),
              allCorrect |-> FALSE,
              correctCount |-> st.correctCount,
              matched |-> Append(st.matched, FALSE)]

RECURSIVE CheckLoop(_, _, _)
CheckLoop(st, prompt, normalizedInput) ==
  IF prompt = <<>> THEN st
  ELSE CheckLoop(CheckIter(st, Head(prompt), normalizedInput), Tail(prompt), normalizedInput)

\* the matching part of checkAnswers, for a non-empty prompt and a
\* non-blank input (its early returns are guards of the callers below)
checkAnswersMatch(prompt, input) ==
  CheckLoop([inputIndex |-> 0, allCorrect |-> TRUE, correctCount |-> 0, matched |-> <<>>],
            prompt, Normalize(input))

(***************************************************************************)
(* State                                                                   *)
(***************************************************************************)
VARIABLES
  \* quiz slice (createQuizSlice)
  currentPrompt,     \* sequence of kana ids
  currentWordString, \* <<>> for null, or <<w>> for the word w of the prompt
  promptType,        \* "attack" | "defense"
  \* game slice (createGameSlice)
  currentEnemy,      \* [health, attack]
  playerLives,
  promptAttempt,
  isGameOver,
  enemyDefeated,
  enemyWillDie,
  combo,
  sessionState,      \* [enemiesDefeated, totalCorrect, totalAttempts]
  \* Enemy component
  currentHealth,     \* useState currentHealth
  \* useKanaCards
  kanaCards,         \* id -> [totalShown, totalCorrect]
  \* localStorage["kana-progress"]
  storage,           \* the saved card map; no entry before the first save
  \* pending setTimeout callbacks, in scheduling order
  timers,
  \* the module variables of the word bank
  cachedAvailableKanaIds, \* the sorted ids of the last getAvailableWords that filtered
  cachedAvailableWords,   \* [hiragana, katakana]: the words it returned
  \* one call of splitWordIntoKana
  word,              \* the word as a string of code units
  wordIndex,         \* the cursor i
  result,            \* the kana pushed so far
  skipped,           \* the positions of word that the loop passed with i++
  \* observation of the run
  lastEvent,         \* the handler that ran last
  promptGenerated,   \* TRUE iff that handler's effects generated a prompt
  attacksSinceDefense, \* attack prompts answered since the spawn or the last defense prompt
  \* one call of the matcher (SpecMatch)
  input,             \* the raw typed string
  pc,                \* "start" | "loop" | "validated" | "done"
  inputIndex,        \* cursor of validateInputWithDetails
  matches,           \* matches of validateInputWithDetails
  validated,         \* what validateInputWithDetails returned
  checked            \* what the inline loop of checkAnswers computed

quizVars == <<currentPrompt, currentWordString, promptType>>

cacheVars == <<cachedAvailableKanaIds, cachedAvailableWords>>

splitVars == <<word, wordIndex, result, skipped>>

gameVars == <<currentEnemy, playerLives, promptAttempt, isGameOver, enemyDefeated,
              enemyWillDie, combo, sessionState, currentHealth,
              kanaCards, storage, timers, lastEvent, promptGenerated,
              attacksSinceDefense>>

matchVars == <<input, pc, inputIndex, matches, validated, checked>>

vars == <<quizVars, gameVars, matchVars, cacheVars, splitVars>>

\* nothing returned / onResult not called
NoResult == [allCorrect |-> FALSE, matches |-> <<>>, called |-> FALSE]

(***************************************************************************)
(* SpecMatch: the matcher applied to one prompt and one typed input        *)
(***************************************************************************)
RECURSIVE SeqsUpTo(_, _)
SeqsUpTo(S, n) ==
  IF n = 0 THEN {<<>>}
  ELSE LET shorter == SeqsUpTo(S, n - 1)
       IN shorter \cup {Append(s, x) : s \in {t \in shorter : Len(t) = n - 1}, x \in S}

UpperChar(c) == IF c = "a" THEN "A" ELSE IF c = "n" THEN "N" ELSE IF c = "s" THEN "S" ELSE c

\* what a user types: lower-case letters, possibly padded with blanks or
\* with the first letter in upper case
LowerStrings == SeqsUpTo(LowerLetters, MaxInputLen)

TypedInputs ==
  LowerStrings
    \cup {<<" ">> \o s \o <<" ">> : s \in LowerStrings}
    \cup {<<UpperChar(Head(s))>> \o Tail(s) : s \in LowerStrings \ {<<>>}}

MatchPrompts == SeqsUpTo(KanaIds, MaxPromptLen) \ {<<>>}

(***************************************************************************)
(* Game tables                                                             *)
(***************************************************************************)
\* the kana selected for the session (Session.selectedKanaIds)
SelectedKanaIds == {"a"}

\* the selections of SpecSelect: one to four kana
QuizSelections == {{"a"}, {"a", "sa"}, {"a", "n", "sa"}, KanaIds}

\* the selections of SpecLedger
LedgerSelections == {{"a"}, {"a", "sa"}}

InitialLives == 3
BaseHealth == 5
HealthSpan == 6
BaseAttack == 2
AttackSpan == 3
HitDelay == 500
RespawnDelay == 2000
IndividualPromptLength == 3
MaxDefensePromptLength == 3
BottomCount == 10
HealAmount == 1

\* bounds on Math.random() in generateNewEnemy: Math.floor(Math.random() * n)
\* is drawn from 0..MaxHealthRoll and 0..MaxAttackRoll, within 0..n-1
MaxHealthRoll == 0
MaxAttackRoll == 1
\* no answer is submitted once this many kana have been attempted: in the
\* sessions of Spec, and in the longer sessions of SpecLong
MaxTotalAttempts == 8
MaxLongAttempts == 9
\* how many respawn timers the defeat effect may have pending at once
MaxPendingRespawns == 2

\* the modifier glyphs of the catalog (small tsu), which canFormWord and the
\* word weights pass over: a word may hold one without it being selected
ModifierIds == {"xtu"}

\* the number of glyphs of the longest word of the corpus
MaxWordLen == 3
\* getNextWord returns null below this many candidate words
WordThreshold == 100
\* maxCharacters of getNextWord is enemiesDefeated + 2
WordLengthBonus == 2

\* the strings of one to MaxWordLen of the given glyphs
WordsOver(glyphs) == UNION {[1..k -> glyphs] : k \in 1..MaxWordLen}

\* the word corpus (~/data/hiragana.json) after splitWordIntoKana: the kana
\* of the model's catalog are hiragana, and every string of up to MaxWordLen
\* catalog glyphs is taken to be a word
hiraganaWordsOfLength(k) == [1..k -> KanaIds \cup ModifierIds]

hiraganaWords == UNION {hiraganaWordsOfLength(k) : k \in 1..MaxWordLen}

\* the number of glyphs of the katakana words of the corpus
KatakanaWordLen == 4

\* the word corpus (~/data/katakana.json) after splitWordIntoKana: every
\* string of KatakanaWordLen katakana is taken to be a word
katakanaWords == [1..KatakanaWordLen -> KatakanaIds]

\* KanaCharacter.character: the glyph of a kana, a string of UTF-16 code
\* units, each written as its code point
character ==
  [id \in KanaIds \cup KatakanaIds \cup ModifierIds \cup RareKanaIds \cup DigraphIds |->
     CASE id = "a" -> <<"U+3042">>
       [] id = "n" -> <<"U+3093">>
       [] id = "na" -> <<"U+306A">>
       [] id = "sa" -> <<"U+3055">>
       [] id = "xtu" -> <<"U+3063">>
       [] id = "a_k" -> <<"U+30A2">>
       [] id = "e" -> <<"U+3048">>
       [] id = "i" -> <<"U+3044">>
       [] id = "ka" -> <<"U+304B">>
       [] id = "ki" -> <<"U+304D">>
       [] id = "ku" -> <<"U+304F">>
       [] id = "o" -> <<"U+304A">>
       [] id = "u" -> <<"U+3046">>
       [] id = "kya" -> <<"U+304D", "U+3083">>]

\* mutant: the attack stat starts at 1
generateNewEnemyAttackFromOne(healthRoll, attackRoll) ==
  [health |-> healthRoll + BaseHealth, attack |-> attackRoll + 1]

\* mutant: the health has no base of 5
generateNewEnemyFromOne(healthRoll, attackRoll) ==
  [health |-> healthRoll + 1, attack |-> attackRoll + BaseAttack]

\* generateNewEnemy, with the two values of Math.floor(Math.random() * n)
generateNewEnemy(healthRoll, attackRoll) ==
  [health |-> healthRoll + BaseHealth, attack |-> attackRoll + BaseAttack]

NewEnemies ==
  {generateNewEnemy(h, a) : h \in 0..Min(MaxHealthRoll, HealthSpan - 1),
                            a \in 0..Min(MaxAttackRoll, AttackSpan - 1)}

\* createEmptyCard(): the scheduler's card of a kana that was never reviewed
EmptyCard == 0

\* a card as useKanaCards creates it: the scheduler's card, and the counters
\* reviewKana keeps.  The scheduler's card is known by the grade that
\* selected it at the last review.
initializeKanaCard(id) == [card |-> EmptyCard, totalShown |-> 0, totalCorrect |-> 0]

\* localStorage without the key "kana-progress": loadProgress() returns null
NoProgress == [saved |-> FALSE, kanaCards |-> [id \in {} |-> initializeKanaCard(id)]]

\* a stored string that JSON.parse rejects
UnparsableProgress == [saved |-> TRUE, syntaxError |-> TRUE]

\* a stored object of an older format, without kanaCards
ProgressWithoutCards == [saved |-> TRUE, level |-> 1]

\* loadProgress: null (NoProgress) when there is no item, when JSON.parse
\* throws and when the object parsed has no kanaCards
loadProgress(stored) ==
  IF ~stored.saved THEN NoProgress
  ELSE IF "syntaxError" \in DOMAIN stored THEN NoProgress
  ELSE IF "kanaCards" \in DOMAIN stored
       THEN [saved |-> TRUE, kanaCards |-> stored.kanaCards]
       ELSE NoProgress

\* the initial state of useKanaCards: the saved cards if there are any,
\* otherwise a fresh card for every selected kana
useKanaCards(saved, selectedKanaIds) ==
  IF saved.saved THEN saved.kanaCards
  ELSE [id \in selectedKanaIds |-> initializeKanaCard(id)]

\* no word string: setCurrentWordString(null)
NoWordString == <<>>

\* the cache of the word bank when the module is loaded
EmptyWordCache ==
  [cachedAvailableKanaIds |-> <<>>,
   cachedAvailableWords |-> [hiragana |-> {}, katakana |-> {}]]

\* splitWordIntoKana has not been called
SplitIdle ==
  /\ word = <<>>
  /\ wordIndex = 0
  /\ result = <<>>
  /\ skipped = {}

GameIdle ==
  /\ promptType = "attack"
  /\ currentEnemy = generateNewEnemy(0, 0)
  /\ playerLives = InitialLives
  /\ promptAttempt = 0
  /\ isGameOver = FALSE
  /\ enemyDefeated = FALSE
  /\ enemyWillDie = FALSE
  /\ combo = 0
  /\ sessionState = [selectedKanaIds |-> SelectedKanaIds, enemiesDefeated |-> 0,
                     totalCorrect |-> 0, totalAttempts |-> 0]
  /\ currentHealth = generateNewEnemy(0, 0).health
  /\ storage = NoProgress
  /\ kanaCards = useKanaCards(loadProgress(storage), SelectedKanaIds)
  /\ attacksSinceDefense = 0
  /\ timers = <<>>
  /\ lastEvent = "init"
  /\ promptGenerated = FALSE
  /\ currentWordString = NoWordString
  /\ cachedAvailableKanaIds = EmptyWordCache.cachedAvailableKanaIds
  /\ cachedAvailableWords = EmptyWordCache.cachedAvailableWords

MatchIdle ==
  /\ input = <<>>
  /\ pc = "start"
  /\ inputIndex = 0
  /\ matches = <<>>
  /\ validated = NoResult
  /\ checked = NoResult

InitMatch ==
  /\ currentPrompt \in MatchPrompts
  /\ input \in TypedInputs
  /\ pc = "start"
  /\ inputIndex = 0
  /\ matches = <<>>
  /\ validated = NoResult
  /\ checked = NoResult
  /\ GameIdle
  /\ SplitIdle

\* validateInputWithDetails, up to the loop: the two early returns
ValidateEnter ==
  /\ pc = "start"
  /\ IF Len(currentPrompt) = 0 \/ Normalize(input) = <<>>
     THEN /\ validated' = [allCorrect |-> FALSE, matches |-> <<>>, called |-> TRUE]
          /\ pc' = "validated"
     ELSE /\ pc' = "loop"
          /\ UNCHANGED validated
  /\ UNCHANGED <<input, inputIndex, matches, checked, quizVars, gameVars, cacheVars,
               splitVars>>

\* one iteration of for (const kana of currentPrompt)
ValidateStep ==
  /\ pc = "loop"
  /\ Len(matches) < Len(currentPrompt)
  /\ LET st == ValidateIter([inputIndex |-> inputIndex, matches |-> matches],
                            currentPrompt[Len(matches) + 1], Normalize(input))
     IN /\ inputIndex' = st.inputIndex
        /\ matches' = st.matches
  /\ UNCHANGED <<input, pc, validated, checked, quizVars, gameVars, cacheVars,
               splitVars>>

\* the loop is exhausted: compute allCorrect and return
ValidateReturn ==
  /\ pc = "loop"
  /\ Len(matches) = Len(currentPrompt)
  /\ LET r == ValidateResult([inputIndex |-> inputIndex, matches |-> matches], Normalize(input))
     IN validated' = [allCorrect |-> r.allCorrect, matches |-> r.matches, called |-> TRUE]
  /\ pc' = "validated"
  /\ UNCHANGED <<input, inputIndex, matches, checked, quizVars, gameVars, cacheVars,
               splitVars>>

\* the same prompt and input through the inline loop of checkAnswers;
\* onResult is not called when checkAnswers returns early
CheckAnswersInline ==
  /\ pc = "validated"
  /\ IF Len(currentPrompt) = 0 \/ Normalize(input) = <<>>
     THEN checked' = NoResult
     ELSE LET r == checkAnswersMatch(currentPrompt, input)
          IN checked' = [allCorrect |-> r.allCorrect, matches |-> r.matched, called |-> TRUE,
                         correctCount |-> r.correctCount, inputIndex |-> r.inputIndex]
  /\ pc' = "done"
  /\ UNCHANGED <<input, inputIndex, matches, validated, quizVars, gameVars, cacheVars,
               splitVars>>

NextMatch == ValidateEnter \/ ValidateStep \/ ValidateReturn \/ CheckAnswersInline

SpecMatch == InitMatch /\ [][NextMatch]_vars

\* COMBO_CONFIGS, sorted by descending threshold; the multipliers in tenths
COMBO_CONFIGS ==
  << [threshold |-> 5, multiplier |-> 20, timerMs |-> 3000],
     [threshold |-> 3, multiplier |-> 15, timerMs |-> 5000],
     [threshold |-> 0, multiplier |-> 10, timerMs |-> 7000] >>

\* the indices of the configs with comboCount >= config.threshold
MatchingConfigs(comboCount) ==
  {i \in 1..Len(COMBO_CONFIGS) : comboCount >= COMBO_CONFIGS[i].threshold}

\* mutant: the last config that matches is returned
getComboConfigLast(comboCount) ==
  IF MatchingConfigs(comboCount) # {}
  THEN COMBO_CONFIGS[CHOOSE i \in MatchingConfigs(comboCount) :
                       \A j \in MatchingConfigs(comboCount) : j <= i]
  ELSE COMBO_CONFIGS[Len(COMBO_CONFIGS)]

\* COMBO_CONFIGS.find(config => comboCount >= config.threshold) ?? the last
getComboConfig(comboCount) ==
  IF MatchingConfigs(comboCount) # {}
  THEN COMBO_CONFIGS[CHOOSE i \in MatchingConfigs(comboCount) :
                       \A j \in MatchingConfigs(comboCount) : i <= j]
  ELSE COMBO_CONFIGS[Len(COMBO_CONFIGS)]

(***************************************************************************)
(* Spec: the quiz, its combat and its timers                               *)
(***************************************************************************)
\* getComboConfig(combo).multiplier, in tenths
getComboMultiplierTenths(comboCount) ==
  IF comboCount >= 5 THEN 20
  ELSE IF comboCount >= 3 THEN 15
  ELSE 10

\* mutant: the damage is the combo count
comboDamageIsCombo(comboCount) == comboCount

\* mutant: the damage is rounded down
comboDamageFloor(comboCount) == getComboMultiplierTenths(comboCount) \div 10

\* Math.ceil(1 * damageMultiplier)
comboDamage(comboCount) == (getComboMultiplierTenths(comboCount) + 9) \div 10

\* mutant: the defense phase does not require a positive attempt counter
nextPromptTypeFromZero(attempt, attack) ==
  IF attempt % attack = 0 THEN "defense" ELSE "attack"

\* the phase chosen by the prompt effect
nextPromptType(attempt, attack) ==
  IF attempt > 0 /\ attempt % attack = 0 THEN "defense" ELSE "attack"

\* sequences of n distinct elements of S
DistinctSeqs(S, n) ==
  {q \in [1..n -> S] : \A i, j \in 1..n : i # j => q[i] # q[j]}

\* canFormWord: every kana of the word other than a modifier is available
canFormWord(wordKana, availableKana) ==
  \A i \in 1..Len(wordKana) :
    wordKana[i] \in ModifierIds \/ wordKana[i] \in availableKana

\* ALL_HIRAGANA_WORDS.filter((wordKana) => canFormWord(wordKana,
\* availableKana)): the words of the corpus that canFormWord accepts, all of
\* them strings of available kana and modifiers
hiraganaWordsList(availableKana) ==
  {wordKana \in WordsOver((availableKana \cap KanaIds) \cup ModifierIds) :
     /\ wordKana \in hiraganaWordsOfLength(Len(wordKana))
     /\ canFormWord(wordKana, availableKana)}

\* ALL_KATAKANA_WORDS.filter((wordKana) => canFormWord(wordKana, availableKana))
katakanaWordsList(availableKana) ==
  {wordKana \in katakanaWords : canFormWord(wordKana, availableKana)}

\* availableKana.map((k) => k.id).sort()
sortIds(availableKana) == SelectSeq(SortedKanaIds, LAMBDA id : id \in availableKana)

\* Array.prototype.join(","): the ids with a comma between two of them
RECURSIVE join(_)
join(ids) ==
  IF Len(ids) <= 1 THEN ids ELSE <<Head(ids), ",">> \o join(Tail(ids))

\* the cache of the word bank in the current state
wordCache ==
  [cachedAvailableKanaIds |-> cachedAvailableKanaIds,
   cachedAvailableWords |-> cachedAvailableWords]

\* mutant: the cache is used whenever it holds as many ids as are available
cacheHitBySize(cache, availableKana) ==
  Len(cache.cachedAvailableKanaIds) = Cardinality(availableKana)

\* the condition under which getAvailableWords returns the cached words
cacheHit(cache, availableKana) ==
  /\ Len(cache.cachedAvailableKanaIds) = Cardinality(availableKana)
  /\ join(cache.cachedAvailableKanaIds) = join(sortIds(availableKana))

\* getAvailableWords: the cache it leaves; it returns cachedAvailableWords
getAvailableWords(cache, availableKana) ==
  IF cacheHit(cache, availableKana) THEN cache
  ELSE [cachedAvailableKanaIds |-> sortIds(availableKana),
        cachedAvailableWords |-> [hiragana |-> hiraganaWordsList(availableKana),
                                  katakana |-> katakanaWordsList(availableKana)]]

\* mutant: a word of modifiers alone has a weight too
hasWordWeightAlways(wordKana) == Len(wordKana) > 0

\* calculateWordWeight(...) > 0: the weight is the average of the positive
\* weights of the kana that are not modifiers, and 0 when there is none
hasWordWeight(wordKana) == \E i \in 1..Len(wordKana) : wordKana[i] \notin ModifierIds

\* mutant: the words are not filtered by their length
filterByLengthNone(words, maxCharacters) == words

\* words.filter((word) => word.length <= maxCharacters)
filterByLength(words, maxCharacters) ==
  {wordKana \in words : Len(wordKana) <= maxCharacters}

\* the values of useHiragana = Math.random() < getWordBankRatio(...).hiragana
\* that a draw from [0, 1) can give
useHiraganaDraws(availableKana) ==
  LET hiraganaCount == Cardinality({id \in availableKana : kanaType(id) = "hiragana"})
      katakanaCount == Cardinality({id \in availableKana : kanaType(id) = "katakana"})
  IN {u \in BOOLEAN : IF u THEN hiraganaCount > 0 ELSE katakanaCount > 0 \/ hiraganaCount = 0}

\* the word bank getNextWord selects from
wordsToSelectFrom(useHiragana, availableWords, filteredHiragana, filteredKatakana) ==
  IF useHiragana /\ filteredHiragana # {} THEN filteredHiragana
  ELSE IF availableWords.katakana # {} THEN filteredKatakana
  ELSE IF filteredHiragana # {} THEN filteredHiragana
  ELSE {}

\* mutant: the threshold is not checked
belowThresholdNever(totalWords) == FALSE

\* totalWords < 100
belowThreshold(totalWords) == totalWords < WordThreshold

\* getNextWord on the words getAvailableWords returned: every outcome of the
\* random draws, <<>> standing for null.  Every word with a positive weight
\* is in the bucket "all", to which the other two buckets fall back.
getNextWordFrom(availableWords, availableKana, maxCharacters) ==
  LET filteredHiragana == filterByLength(availableWords.hiragana, maxCharacters)
      filteredKatakana == filterByLength(availableWords.katakana, maxCharacters)
      totalWords == Cardinality(filteredHiragana) + Cardinality(filteredKatakana)
      allWords(useHiragana) ==
        {wordKana \in wordsToSelectFrom(useHiragana, availableWords,
                                        filteredHiragana, filteredKatakana) :
           hasWordWeight(wordKana)}
  IN IF belowThreshold(totalWords) THEN {<<>>}
     ELSE UNION {IF allWords(useHiragana) = {} THEN {<<>>} ELSE allWords(useHiragana) :
                   useHiragana \in useHiraganaDraws(availableKana)}

\* getNextWord(availableKana, kanaCards, maxCharacters) with the cache as
\* the call finds it
getNextWord(cache, availableKana, maxCharacters) ==
  getNextWordFrom(getAvailableWords(cache, availableKana).cachedAvailableWords,
                  availableKana, maxCharacters)

\* the raw accuracy totalCorrect / totalShown of getBottomKanaByAccuracy as
\* a fraction <<numerator, denominator>>; 0 for a kana that has no card or
\* was never shown
accuracy(cards, id) ==
  IF id \in DOMAIN cards /\ cards[id].totalShown > 0
  THEN <<cards[id].totalCorrect, cards[id].totalShown>>
  ELSE <<0, 1>>

\* a.accuracy - b.accuracy < 0
accuracyBelow(a, b) == a[1] * b[2] < b[1] * a[2]

\* mutant: the kana are taken in any order
getAnyKana(kanaList, cards, count) ==
  {bottomKana \in SUBSET kanaList :
     Cardinality(bottomKana) = Min(count, Cardinality(kanaList))}

\* getBottomKanaByAccuracy: the kana of the first count places after the
\* sort by ascending accuracy.  Kana of equal accuracy keep the order of
\* the catalog, which any of them may lead.
getBottomKanaByAccuracy(kanaList, cards, count) ==
  IF Cardinality(kanaList) <= count THEN {kanaList}
  ELSE {bottomKana \in SUBSET kanaList :
          /\ Cardinality(bottomKana) = count
          /\ \A b \in bottomKana, o \in kanaList \ bottomKana :
               ~accuracyBelow(accuracy(cards, o), accuracy(cards, b))}

\* wordKana.map((k) => k.character).join(""): the glyphs one after the other
RECURSIVE wordString(_)
wordString(wordKana) ==
  IF wordKana = <<>> THEN <<>>
  ELSE character[Head(wordKana)] \o wordString(Tail(wordKana))

\* mutant: the draw is from every kana of the selection
getNextKanaOfSelection(availableKana, cards) == sessionState.selectedKanaIds

\* getNextKana(availableKana, kanaCards): every kana the random draws can
\* return, none (null) for an empty list.  The draw is from newCards (the
\* kana without a card) or from otherCards, by weight; when the weights of
\* the pool sum to 0 it is from availableKana.
getNextKana(availableKana, cards) ==
  LET newCards == {id \in availableKana : id \notin DOMAIN cards}
      otherCards == availableKana \ newCards
      cardsToSelectFrom ==
        IF newCards # {} /\ otherCards # {} THEN {newCards, otherCards}
        ELSE IF otherCards # {} THEN {otherCards}
        ELSE IF newCards # {} THEN {newCards}
        ELSE {{}}
  IN IF availableKana = {} THEN {}
     ELSE UNION cardsToSelectFrom \cup availableKana

\* the loop of the individual mode: promptLength kana, each drawn by
\* getNextKana from those not used yet
RECURSIVE individualPrompts(_, _, _, _)
individualPrompts(newPrompt, i, availableKana, cards) ==
  LET remaining == availableKana \ {newPrompt[k] : k \in 1..Len(newPrompt)}
  IN IF ~(i < IndividualPromptLength /\ Len(newPrompt) < Cardinality(availableKana))
        \/ remaining = {}
     THEN {newPrompt}
     ELSE UNION {individualPrompts(Append(newPrompt, next), i + 1, availableKana, cards) :
                   next \in getNextKana(remaining, cards)}

\* generatePrompt(type) with the cache as the call finds it: for every
\* outcome of the random draws the prompt returned, the word string set and
\* the cache left
generatePromptWith(cache, availableKana, cards, type, enemiesDefeated) ==
  IF type = "defense"
  THEN LET promptLength == Min(enemiesDefeated + 1, MaxDefensePromptLength)
       IN {[prompt |-> shuffled, wordString |-> NoWordString, cache |-> cache] :
             shuffled \in UNION {DistinctSeqs(bottomKana,
                                              Min(promptLength, Cardinality(bottomKana))) :
                                   bottomKana \in getBottomKanaByAccuracy(
                                                    availableKana, cards, BottomCount)}}
  ELSE LET wordKana == getNextWord(cache, availableKana, enemiesDefeated + WordLengthBonus)
           left == getAvailableWords(cache, availableKana)
       IN {[prompt |-> w, wordString |-> <<wordString(w)>>, cache |-> left] :
             w \in wordKana \ {<<>>}}
          \cup (IF <<>> \in wordKana
                THEN {[prompt |-> newPrompt, wordString |-> NoWordString, cache |-> left] :
                        newPrompt \in individualPrompts(<<>>, 0, availableKana, cards)}
                ELSE {})

\* generatePrompt with the cache of the current state and the cards of the
\* render in which the prompt effect runs
generatePrompt(type, enemiesDefeated, cards) ==
  generatePromptWith(wordCache, sessionState.selectedKanaIds, cards,
                     type, enemiesDefeated)

\* the store after generatePrompt returned and setCurrentPrompt was called
NewPrompt(type, enemiesDefeated, cards) ==
  \E p \in generatePrompt(type, enemiesDefeated, cards) :
    /\ currentPrompt' = p.prompt
    /\ currentWordString' = p.wordString
    /\ cachedAvailableKanaIds' = p.cache.cachedAvailableKanaIds
    /\ cachedAvailableWords' = p.cache.cachedAvailableWords

\* the first prompt: the word bank was loaded with an empty cache
FirstPrompt(type) ==
  \E p \in generatePromptWith(EmptyWordCache, sessionState.selectedKanaIds,
                              kanaCards, type, 0) :
    /\ currentPrompt = p.prompt
    /\ currentWordString = p.wordString
    /\ cachedAvailableKanaIds = p.cache.cachedAvailableKanaIds
    /\ cachedAvailableWords = p.cache.cachedAvailableWords

\* getPerformanceHistory: accuracy = totalCorrect / totalShown compared with
\* 0.8 and 0.5, in tenths
getPerformanceHistory(kanaCard) ==
  IF kanaCard.totalShown < 3 THEN "neutral"
  ELSE IF 10 * kanaCard.totalCorrect >= 8 * kanaCard.totalShown THEN "positive"
  ELSE IF 10 * kanaCard.totalCorrect < 5 * kanaCard.totalShown THEN "negative"
  ELSE "neutral"

\* mutant: the grade is taken from the counters that include this answer
reviewGradeAfterUpdate(kanaCard, isCorrect) ==
  LET updated == [totalShown |-> kanaCard.totalShown + 1,
                  totalCorrect |-> kanaCard.totalCorrect + (IF isCorrect THEN 1 ELSE 0)]
  IN IF isCorrect
     THEN CASE getPerformanceHistory(updated) = "positive" -> 4
            [] getPerformanceHistory(updated) = "negative" -> 2
            [] OTHER -> 3
     ELSE 1

\* the grade chosen by reviewKana: Again 1, Hard 2, Good 3, Easy 4
reviewGrade(kanaCard, isCorrect) ==
  IF isCorrect
  THEN CASE getPerformanceHistory(kanaCard) = "positive" -> 4
         [] getPerformanceHistory(kanaCard) = "negative" -> 2
         [] OTHER -> 3
  ELSE 1

\* mutant: an answer is counted as shown only when it is correct
reviewKanaShownWhenCorrect(kanaCard, isCorrect) ==
  [card |-> reviewGrade(kanaCard, isCorrect),
   totalShown |-> kanaCard.totalShown + (IF isCorrect THEN 1 ELSE 0),
   totalCorrect |-> kanaCard.totalCorrect + (IF isCorrect THEN 1 ELSE 0)]

\* reviewKana: scheduler.repeat(kanaCard.card, now)[grade].card and the
\* counters
reviewKana(kanaCard, isCorrect) ==
  [card |-> reviewGrade(kanaCard, isCorrect),
   totalShown |-> kanaCard.totalShown + 1,
   totalCorrect |-> kanaCard.totalCorrect + (IF isCorrect THEN 1 ELSE 0)]

\* mutant: the card map of the previous render is written
saveProgressStale(progress) == [saved |-> TRUE, kanaCards |-> kanaCards]

\* saveProgress: JSON.stringify of the card map into localStorage; the
\* counters survive the round trip through JSON unchanged
saveProgress(progress) == [saved |-> TRUE, kanaCards |-> progress]

\* updatedKanaCards of checkAnswers merged into kanaCards by updateKanaCards
\* kanaCards[kana.id], or initializeKanaCard(kana.id) when there is none
kanaCardOf(id) ==
  IF id \in DOMAIN kanaCards THEN kanaCards[id] ELSE initializeKanaCard(id)

RECURSIVE updateKanaCards(_, _, _, _)
updateKanaCards(cards, prompt, matched, i) ==
  IF i > Len(prompt) THEN cards
  ELSE updateKanaCards(
         [id \in DOMAIN cards \cup {prompt[i]} |->
            IF id = prompt[i] THEN reviewKana(kanaCardOf(id), matched[i])
            ELSE cards[id]],
         prompt, matched, i + 1)

\* Enemy.willDie(damage)
willDie(damage) == currentHealth - damage <= 0

\* Enemy.playHit: setCurrentHealth(prev => Math.max(0, prev - amount))
playHit(health, amount) == Max(0, health - amount)

\* mutant: a heal restores the whole health
healToFull(health, amount) == currentEnemy.health

\* mutant: healing is not limited by the enemy's maximum
healUnclamped(health, amount) == health + amount

\* Enemy.heal: setCurrentHealth(prev => Math.min(enemy.health, prev + amount))
heal(health, amount) == Min(currentEnemy.health, health + amount)

Timer(kind, amount, delay) == [kind |-> kind, amount |-> amount, delay |-> delay]

\* the callback of timers[i] may run next: every timer set earlier with a
\* delay not longer than its own has already run
CanFire(i) == \A j \in 1..(i - 1) : timers[j].delay > timers[i].delay

RemoveAt(q, i) == SubSeq(q, 1, i - 1) \o SubSeq(q, i + 1, Len(q))

PendingRespawns == Cardinality({i \in 1..Len(timers) : timers[i].kind = "respawn"})

\* mutant: the guard does not look at isGameOver
canSubmitIgnoringGameOver(inp) ==
  /\ trim(inp) # <<>>
  /\ Len(currentPrompt) > 0
  /\ ~enemyDefeated
  /\ ~enemyWillDie

\* mutant: the guard does not look at the input
canSubmitIgnoringBlank(inp) ==
  /\ Len(currentPrompt) > 0
  /\ ~isGameOver
  /\ ~enemyDefeated
  /\ ~enemyWillDie

\* mutant: the guard does not look at enemyWillDie
canSubmitWhileDying(inp) ==
  /\ trim(inp) # <<>>
  /\ Len(currentPrompt) > 0
  /\ ~isGameOver
  /\ ~enemyDefeated

\* the guard of handleSubmit
canSubmit(inp) ==
  /\ trim(inp) # <<>>
  /\ Len(currentPrompt) > 0
  /\ ~isGameOver
  /\ ~enemyDefeated
  /\ ~enemyWillDie

\* what the player types for a one-kana prompt: the answer, a wrong answer,
\* the answer followed by one more character, nothing but a blank
GameInputs == {<<"a">>, <<"n">>, <<"a", "a">>, <<" ">>}

Init ==
  /\ MatchIdle
  /\ currentEnemy \in NewEnemies
  /\ currentHealth = currentEnemy.health
  /\ playerLives = InitialLives
  /\ promptAttempt = 0
  /\ isGameOver = FALSE
  /\ enemyDefeated = FALSE
  /\ enemyWillDie = FALSE
  /\ combo = 0
  /\ sessionState = [selectedKanaIds |-> SelectedKanaIds, enemiesDefeated |-> 0,
                     totalCorrect |-> 0, totalAttempts |-> 0]
  /\ storage = NoProgress
  /\ kanaCards = useKanaCards(loadProgress(storage), SelectedKanaIds)
  /\ attacksSinceDefense = 0
  /\ timers = <<>>
  /\ promptType = nextPromptType(0, currentEnemy.attack)
  /\ FirstPrompt(promptType)
  /\ SplitIdle
  /\ lastEvent = "init"
  /\ promptGenerated = TRUE

\* mutant: the attempt counter is left as it was
incrementPromptAttemptKeep(attempt) == attempt

\* incrementPromptAttempt / setPromptAttempt(promptAttempt + 1)
incrementPromptAttempt(attempt) == attempt + 1

\* the prompt effect, run after a handler that changed one of its
\* dependencies: it returns early or replaces the prompt
PromptEffect(defeated, dying, attempt, attack, enemiesDefeated, cards) ==
  IF defeated \/ dying
  THEN /\ promptGenerated' = FALSE
       /\ UNCHANGED <<currentPrompt, currentWordString, cacheVars, promptType>>
  ELSE /\ promptType' = nextPromptType(attempt, attack)
       /\ NewPrompt(nextPromptType(attempt, attack), enemiesDefeated, cards)
       /\ promptGenerated' = TRUE

\* handleSubmit refuses the input: nothing is set
SubmitRejected ==
  /\ \E inp \in GameInputs : ~canSubmit(inp)
  /\ lastEvent' = "submitRejected"
  /\ promptGenerated' = FALSE
  /\ UNCHANGED <<currentPrompt, currentWordString, cacheVars, promptType, currentEnemy, playerLives, promptAttempt,
                 isGameOver, enemyDefeated, enemyWillDie, combo, sessionState,
                 currentHealth, kanaCards, storage, attacksSinceDefense, timers,
                 matchVars, splitVars>>

\* handleSubmit -> checkAnswers -> combat (playerAttack / heal / enemyAttack),
\* followed by the prompt effect
SubmitAnswer(inp, maxAttempts) ==
  /\ canSubmit(inp)
  /\ sessionState.totalAttempts + Len(currentPrompt) <= maxAttempts
  \* r and finalKanaCards are computed once by checkAnswers
  /\ \E r \in {checkAnswersMatch(currentPrompt, inp)} :
     \E finalKanaCards \in {updateKanaCards(kanaCards, currentPrompt, r.matched, 1)} :
     LET newCombo == combo + 1
         damage == comboDamage(newCombo)
         dying == IF promptType = "attack" /\ r.allCorrect
                  THEN willDie(damage) ELSE enemyWillDie
     IN /\ kanaCards' = finalKanaCards
        \* localStorage accepts the writes of these sessions
        /\ storage' = saveProgress(finalKanaCards)
        /\ attacksSinceDefense' =
             IF promptType = "attack" THEN attacksSinceDefense + 1 ELSE 0
        /\ sessionState' =
             [sessionState EXCEPT
                !.totalCorrect = sessionState.totalCorrect + r.correctCount,
                !.totalAttempts = sessionState.totalAttempts + Len(currentPrompt)]
        /\ promptAttempt' = incrementPromptAttempt(promptAttempt)
        /\ combo' = IF r.allCorrect THEN newCombo ELSE 0
        /\ enemyWillDie' = dying
        /\ IF promptType = "attack"
           THEN IF r.allCorrect
                THEN /\ timers' = Append(timers, Timer("hit", damage, HitDelay))
                     /\ UNCHANGED currentHealth
                ELSE /\ currentHealth' = heal(currentHealth, HealAmount)
                     /\ UNCHANGED timers
           ELSE IF r.allCorrect
                THEN UNCHANGED <<timers, currentHealth>>
                ELSE /\ timers' = Append(timers, Timer("life", 1, HitDelay))
                     /\ UNCHANGED currentHealth
        /\ PromptEffect(enemyDefeated, dying, incrementPromptAttempt(promptAttempt),
                        currentEnemy.attack, sessionState.enemiesDefeated,
                        finalKanaCards)
  /\ lastEvent' = "submit"
  /\ UNCHANGED <<currentEnemy, playerLives, isGameOver, enemyDefeated, matchVars, splitVars>>

\* the player submits any of the inputs
SubmitAccepted(maxAttempts) == \E inp \in GameInputs : SubmitAnswer(inp, maxAttempts)

\* the 500 ms callback of playerAttack: Enemy.playHit, then the defeat
\* effect, which sets the respawn timer when enemyDefeated turns true
HitFire ==
  \E i \in 1..Len(timers) :
    /\ timers[i].kind = "hit"
    /\ CanFire(i)
    /\ LET amount == timers[i].amount
           willBeDefeated == currentHealth - amount <= 0
       IN /\ currentHealth' = playHit(currentHealth, amount)
          /\ IF willBeDefeated
             THEN /\ currentPrompt' = <<>>
                  /\ enemyDefeated' = TRUE
                  /\ timers' = IF enemyDefeated THEN RemoveAt(timers, i)
                               ELSE Append(RemoveAt(timers, i),
                                           Timer("respawn", 0, RespawnDelay))
             ELSE /\ timers' = RemoveAt(timers, i)
                  /\ UNCHANGED <<currentPrompt, enemyDefeated>>
    /\ lastEvent' = "hit"
    /\ promptGenerated' = FALSE
    /\ UNCHANGED <<currentWordString, cacheVars, promptType, currentEnemy, playerLives,
                   promptAttempt, isGameOver,
                   enemyWillDie, combo, sessionState, kanaCards, storage,
                   attacksSinceDefense, matchVars, splitVars>>

\* mutant: the enemy's attack takes every life that is left
livesAfterAttackNone(currentLives) == currentLives - currentLives

\* const newLives = currentLives - 1
livesAfterAttack(currentLives) == currentLives - 1

\* the 500 ms callback of enemyAttack
LifeFire ==
  \E i \in 1..Len(timers) :
    /\ timers[i].kind = "life"
    /\ CanFire(i)
    /\ LET newLives == livesAfterAttack(playerLives)
       IN /\ playerLives' = newLives
          /\ isGameOver' = (isGameOver \/ newLives <= 0)
    /\ timers' = RemoveAt(timers, i)
    /\ lastEvent' = "life"
    /\ promptGenerated' = FALSE
    /\ UNCHANGED <<currentPrompt, currentWordString, cacheVars, promptType, currentEnemy, promptAttempt, enemyDefeated,
                   enemyWillDie, combo, sessionState, currentHealth, kanaCards,
                   storage, attacksSinceDefense, matchVars, splitVars>>

\* mutant: spawnNewEnemy resets the combo as well
RespawnFireResetsCombo ==
  \E i \in 1..Len(timers) :
    /\ timers[i].kind = "respawn"
    /\ CanFire(i)
    /\ \E enemy \in NewEnemies :
         /\ currentEnemy' = enemy
         /\ currentHealth' = enemy.health
         /\ PromptEffect(FALSE, FALSE, 0, enemy.attack,
                         sessionState.enemiesDefeated + 1, kanaCards)
    /\ promptAttempt' = 0
    /\ enemyDefeated' = FALSE
    /\ enemyWillDie' = FALSE
    /\ sessionState' = [sessionState EXCEPT !.enemiesDefeated = sessionState.enemiesDefeated + 1]
    /\ timers' = RemoveAt(timers, i)
    /\ lastEvent' = "respawn"
    /\ attacksSinceDefense' = 0
    /\ combo' = 0
    /\ UNCHANGED <<playerLives, isGameOver, kanaCards, storage, matchVars, splitVars>>

\* the 2000 ms callback of the defeat effect: spawnNewEnemy, the reset of
\* the Enemy component's health, and the prompt effect
RespawnFire ==
  \E i \in 1..Len(timers) :
    /\ timers[i].kind = "respawn"
    /\ CanFire(i)
    /\ \E enemy \in NewEnemies :
         /\ currentEnemy' = enemy
         /\ currentHealth' = enemy.health
         /\ PromptEffect(FALSE, FALSE, 0, enemy.attack,
                         sessionState.enemiesDefeated + 1, kanaCards)
    /\ promptAttempt' = 0
    /\ enemyDefeated' = FALSE
    /\ enemyWillDie' = FALSE
    /\ sessionState' = [sessionState EXCEPT !.enemiesDefeated = sessionState.enemiesDefeated + 1]
    /\ timers' = RemoveAt(timers, i)
    /\ lastEvent' = "respawn"
    /\ attacksSinceDefense' = 0
    /\ UNCHANGED <<playerLives, isGameOver, combo, kanaCards, storage, matchVars, splitVars>>

\* the defeat effect runs again while enemyDefeated is true because another
\* of its dependencies (onEnemyDefeated) changed: it sets one more timer
DefeatEffectRerun ==
  /\ enemyDefeated
  /\ PendingRespawns < MaxPendingRespawns
  /\ timers' = Append(timers, Timer("respawn", 0, RespawnDelay))
  /\ lastEvent' = "defeatEffect"
  /\ promptGenerated' = FALSE
  /\ UNCHANGED <<currentPrompt, currentWordString, cacheVars, promptType, currentEnemy, playerLives, promptAttempt,
                 isGameOver, enemyDefeated, enemyWillDie, combo, sessionState,
                 currentHealth, kanaCards, storage, attacksSinceDefense, matchVars, splitVars>>

\* mutant: the countdown does not look at enemyWillDie
manaTimerRunsWhileDying ==
  /\ Len(currentPrompt) > 0
  /\ ~isGameOver

\* the condition under which the effect of useManaTimer sets its interval
manaTimerRuns ==
  /\ Len(currentPrompt) > 0
  /\ ~isGameOver
  /\ ~enemyWillDie

\* mutant: the prompt effect depends on the combo and runs again
ManaTimerExpireRegenerates ==
  /\ manaTimerRuns
  /\ combo > 0
  /\ combo' = 0
  /\ lastEvent' = "manaTimer"
  /\ PromptEffect(enemyDefeated, enemyWillDie, promptAttempt, currentEnemy.attack,
                  sessionState.enemiesDefeated, kanaCards)
  /\ UNCHANGED <<currentEnemy, playerLives, promptAttempt,
                 isGameOver, enemyDefeated, enemyWillDie, sessionState,
                 currentHealth, kanaCards, storage, attacksSinceDefense, timers,
                 matchVars, splitVars>>

\* the mana countdown reaches 0: onTimerExpire resets the combo
ManaTimerExpire ==
  /\ manaTimerRuns
  /\ combo > 0
  /\ combo' = 0
  /\ lastEvent' = "manaTimer"
  /\ promptGenerated' = FALSE
  /\ UNCHANGED <<currentPrompt, currentWordString, cacheVars, promptType, currentEnemy, playerLives, promptAttempt,
                 isGameOver, enemyDefeated, enemyWillDie, sessionState,
                 currentHealth, kanaCards, storage, attacksSinceDefense, timers,
                 matchVars, splitVars>>

Timers == HitFire \/ LifeFire \/ RespawnFire \/ ManaTimerExpire

Next ==
  \/ SubmitAccepted(MaxTotalAttempts)
  \/ SubmitRejected
  \/ Timers
  \/ DefeatEffectRerun

Spec == Init /\ [][Next]_vars


\* the same program under the assumption that a pending timer's callback
\* runs at last: setTimeout calls each callback once its delay has passed
SpecTimers ==
  Spec /\ WF_vars(HitFire) /\ WF_vars(LifeFire) /\ WF_vars(RespawnFire)

\* the same program, followed through longer sessions
NextLong ==
  \/ SubmitAccepted(MaxLongAttempts)
  \/ SubmitRejected
  \/ Timers
  \/ DefeatEffectRerun

SpecLong == Init /\ [][NextLong]_vars

(***************************************************************************)
(* SpecPerfect: the scenario of the perfect attack.  The first enemy has   *)
(* 5 health points and attack 3; every attack prompt is answered correctly *)
(* while the combo multiplier is 1.0; defense prompts are answered in any  *)
(* way; the timers run as in Spec.                                         *)
(***************************************************************************)
PerfectEnemy == generateNewEnemy(0, 1)

InitPerfect == Init /\ currentEnemy = PerfectEnemy

\* a correct answer to an attack prompt, the new combo below 3
PerfectAttack ==
  /\ promptType = "attack"
  /\ getComboMultiplierTenths(combo + 1) = 10
  /\ \E inp \in GameInputs :
       /\ checkAnswersMatch(currentPrompt, inp).allCorrect
       /\ SubmitAnswer(inp, MaxTotalAttempts)

\* any answer to a defense prompt
DefenseAnswer ==
  /\ promptType = "defense"
  /\ SubmitAccepted(MaxTotalAttempts)

NextPerfect == PerfectAttack \/ DefenseAnswer \/ Timers \/ DefeatEffectRerun

SpecPerfect == InitPerfect /\ [][NextPerfect]_vars

(***************************************************************************)
(* SpecRender: the scenario of SpecPerfect with the render of the Enemy    *)
(* component as a task of its own.  playHit and setCurrentHealth are       *)
(* called from a timer callback, so React renders the component, and       *)
(* useImperativeHandle replaces the handle that holds currentHealth, in a  *)
(* later task; a second hit callback that is already due may run first.    *)
(***************************************************************************)
RenderDelay == 0

\* a render of the Enemy component is scheduled and has not run
RenderPending == \E i \in 1..Len(timers) : timers[i].kind = "render"

\* the currentHealth that the handle of useImperativeHandle closes over:
\* the health of the last render
handleHealth ==
  IF RenderPending
  THEN timers[CHOOSE i \in 1..Len(timers) : timers[i].kind = "render"].amount
  ELSE currentHealth

\* the 500 ms callback of playerAttack: Enemy.playHit decides willBeDefeated
\* from the health of the last render and schedules a render
HitFireBeforeRender ==
  \E i \in 1..Len(timers) :
    /\ timers[i].kind = "hit"
    /\ CanFire(i)
    /\ LET amount == timers[i].amount
           willBeDefeated == handleHealth - amount <= 0
           rest == RemoveAt(timers, i)
           scheduled == IF RenderPending THEN rest
                        ELSE Append(rest, Timer("render", currentHealth, RenderDelay))
       IN /\ currentHealth' = playHit(currentHealth, amount)
          /\ IF willBeDefeated
             THEN /\ currentPrompt' = <<>>
                  /\ enemyDefeated' = TRUE
                  /\ timers' = IF enemyDefeated THEN scheduled
                               ELSE Append(scheduled, Timer("respawn", 0, RespawnDelay))
             ELSE /\ timers' = scheduled
                  /\ UNCHANGED <<currentPrompt, enemyDefeated>>
    /\ lastEvent' = "hit"
    /\ promptGenerated' = FALSE
    /\ UNCHANGED <<currentWordString, cacheVars, promptType, currentEnemy, playerLives,
                   promptAttempt, isGameOver,
                   enemyWillDie, combo, sessionState, kanaCards, storage,
                   attacksSinceDefense, matchVars, splitVars>>

\* the scheduled render runs: the handle is replaced by one that holds the
\* current health
RenderFire ==
  \E i \in 1..Len(timers) :
    /\ timers[i].kind = "render"
    /\ timers' = RemoveAt(timers, i)
    /\ lastEvent' = "render"
    /\ promptGenerated' = FALSE
    /\ UNCHANGED <<currentPrompt, currentWordString, cacheVars, promptType, currentEnemy, playerLives, promptAttempt,
                   isGameOver, enemyDefeated, enemyWillDie, combo, sessionState,
                   currentHealth, kanaCards, storage, attacksSinceDefense, matchVars, splitVars>>

\* input events, the mana countdown and the 2000 ms respawn callback are
\* handled after a render that is already scheduled
NextRender ==
  \/ HitFireBeforeRender
  \/ RenderFire
  \/ LifeFire
  \/ ~RenderPending /\ PerfectAttack
  \/ ~RenderPending /\ DefenseAnswer
  \/ ~RenderPending /\ RespawnFire
  \/ ~RenderPending /\ ManaTimerExpire

SpecRender == InitPerfect /\ [][NextRender]_vars

(***************************************************************************)
(* SpecSelect and SpecLedger: prompt generation for any selection, number  *)
(* of enemies defeated and phase; answer checking with the card ledger and *)
(* its copy in localStorage                                                *)
(***************************************************************************)
\* generatePrompt is called with up to this many enemies defeated
MaxQuizEnemiesDefeated == 2
\* no answer is checked once this many kana have been attempted
MaxLedgerAttempts == 5

\* what localStorage holds when the quiz mounts: nothing, a string that is
\* not JSON, an object without cards, or the cards that an earlier session
\* saved after its only answer
EarlierProgress ==
  {NoProgress, UnparsableProgress, ProgressWithoutCards} \cup
  {[saved |-> TRUE,
    kanaCards |-> [id \in {k} |-> reviewKana(initializeKanaCard(k), k = "a")]] :
     k \in {"a", "sa"}}

\* what the player types for a prompt: for each kana its first accepted
\* romaji or the letter s, which no kana of the catalog accepts
RECURSIVE TypedAnswers(_)
TypedAnswers(prompt) ==
  IF prompt = <<>> THEN {<<>>}
  ELSE {t \o rest : t \in {toLowerCase(Romaji[Head(prompt)][1]), <<"s">>},
                    rest \in TypedAnswers(Tail(prompt))}

\* the quiz after it mounted with one of the selections
InitWith(selections) ==
  /\ MatchIdle
  /\ currentEnemy = generateNewEnemy(0, 0)
  /\ currentHealth = currentEnemy.health
  /\ playerLives = InitialLives
  /\ promptAttempt = 0
  /\ isGameOver = FALSE
  /\ enemyDefeated = FALSE
  /\ enemyWillDie = FALSE
  /\ combo = 0
  /\ \E selected \in selections :
       /\ sessionState = [selectedKanaIds |-> selected, enemiesDefeated |-> 0,
                          totalCorrect |-> 0, totalAttempts |-> 0]
       /\ storage \in EarlierProgress
       /\ kanaCards = useKanaCards(loadProgress(storage), selected)
  /\ attacksSinceDefense = 0
  /\ timers = <<>>
  /\ promptType = nextPromptType(0, currentEnemy.attack)
  /\ FirstPrompt(promptType)
  /\ SplitIdle
  /\ lastEvent = "init"
  /\ promptGenerated = TRUE

InitSelect == InitWith(QuizSelections)

\* generatePrompt(type) with sessionState.enemiesDefeated = n
QuizGenerate ==
  \E type \in {"attack", "defense"}, n \in 0..MaxQuizEnemiesDefeated :
    /\ sessionState' = [sessionState EXCEPT !.enemiesDefeated = n]
    /\ promptType' = type
    /\ NewPrompt(type, n, kanaCards)
    /\ lastEvent' = "generate"
    /\ promptGenerated' = TRUE
    /\ UNCHANGED <<currentEnemy, playerLives, promptAttempt, isGameOver, enemyDefeated,
                   enemyWillDie, combo, currentHealth, kanaCards, storage,
                   attacksSinceDefense, timers, matchVars, splitVars>>

SpecSelect == InitSelect /\ [][QuizGenerate]_vars

InitLedger == InitWith(LedgerSelections)

\* mutant: what setItem throws leaves saveProgress and ends checkAnswers
saveProgressThrows == FALSE

\* saveProgress catches what setItem throws and returns
saveProgressCatches == TRUE

\* checkAnswers up to onResult: the cards, their copy in localStorage and
\* the session totals, then the next prompt.  setItem either stores the
\* string or throws, and saveProgress catches what it throws.
QuizAnswer(stored) ==
  \E inp \in TypedAnswers(currentPrompt) :
    /\ Len(currentPrompt) > 0
    /\ Normalize(inp) # <<>>
    /\ sessionState.totalAttempts + Len(currentPrompt) <= MaxLedgerAttempts
    /\ \E r \in {checkAnswersMatch(currentPrompt, inp)} :
       \E finalKanaCards \in {updateKanaCards(kanaCards, currentPrompt, r.matched, 1)} :
         /\ kanaCards' = finalKanaCards
         /\ storage' = IF stored THEN saveProgress(finalKanaCards) ELSE storage
         /\ IF stored \/ saveProgressCatches
            THEN /\ sessionState' =
                      [sessionState EXCEPT
                         !.totalCorrect = sessionState.totalCorrect + r.correctCount,
                         !.totalAttempts = sessionState.totalAttempts + Len(currentPrompt)]
                 /\ checked' = [allCorrect |-> r.allCorrect, matches |-> r.matched,
                                called |-> TRUE]
            ELSE /\ checked' = NoResult
                 /\ UNCHANGED sessionState
         /\ NewPrompt(promptType, sessionState.enemiesDefeated, finalKanaCards)
    /\ input' = inp
    /\ lastEvent' = IF stored THEN "answer" ELSE "answerNotStored"
    /\ promptGenerated' = TRUE
    /\ UNCHANGED <<promptType, currentEnemy, playerLives, promptAttempt,
                   isGameOver, enemyDefeated, enemyWillDie, combo, currentHealth,
                   attacksSinceDefense, timers, pc, inputIndex, matches, validated,
                   splitVars>>

QuizAnswerStored == QuizAnswer(TRUE)

QuizAnswerNotStored == QuizAnswer(FALSE)

NextLedger == QuizAnswerStored \/ QuizAnswerNotStored

SpecLedger == InitLedger /\ [][NextLedger]_vars


(***************************************************************************)
(* SpecRepeat: the quiz with the four hiragana selected, where prompts are *)
(* words of the corpus and a word may hold the same kana more than once;   *)
(* a prompt is generated and prompts are answered.                        *)
(***************************************************************************)
\* no answer is checked once this many kana have been attempted
MaxRepeatAttempts == 3

RepeatSelections == {KanaIds}

InitRepeat == InitWith(RepeatSelections)

\* the player answers a prompt whose kana all have romaji; a word with a
\* modifier is not answered
RepeatAnswer ==
  /\ \A i \in 1..Len(currentPrompt) : currentPrompt[i] \in DOMAIN Romaji
  /\ sessionState.totalAttempts + Len(currentPrompt) <= MaxRepeatAttempts
  /\ QuizAnswer(TRUE)

\* the first prompt after the mount is replaced by one generated for some
\* number of enemies defeated
RepeatGenerate == lastEvent = "init" /\ QuizGenerate

NextRepeat == RepeatGenerate \/ RepeatAnswer

SpecRepeat == InitRepeat /\ [][NextRepeat]_vars

(***************************************************************************)
(* SpecDefense: one defense prompt for a selection of two or of eleven     *)
(* kana, generated from the card ledger of an earlier session              *)
(***************************************************************************)
DefenseSelections == {{"a", "sa"}, KanaIds \cup RareKanaIds}

\* the card of a kana answered once, correctly
AnsweredOnce(id) == reviewKana(initializeKanaCard(id), TRUE)

\* the card of a kana answered correctly, then incorrectly
AnsweredTwice(id) == reviewKana(AnsweredOnce(id), FALSE)

\* what an earlier session with the same selection saved: every kana has a
\* card, up to one was answered once and up to one twice
DefenseProgress(selected) ==
  {saveProgress([id \in selected |->
                   IF id = once THEN AnsweredOnce(id)
                   ELSE IF id = twice THEN AnsweredTwice(id)
                   ELSE initializeKanaCard(id)]) :
     once \in selected \cup {"none"}, twice \in selected \cup {"none"}}

\* the store and the ledger when the quiz mounts, before the prompt effect
InitDefense ==
  /\ MatchIdle
  /\ SplitIdle
  /\ currentPrompt = <<>>
  /\ currentWordString = NoWordString
  /\ cachedAvailableKanaIds = EmptyWordCache.cachedAvailableKanaIds
  /\ cachedAvailableWords = EmptyWordCache.cachedAvailableWords
  /\ promptType = "attack"
  /\ currentEnemy = generateNewEnemy(0, 0)
  /\ currentHealth = currentEnemy.health
  /\ playerLives = InitialLives
  /\ promptAttempt = 0
  /\ isGameOver = FALSE
  /\ enemyDefeated = FALSE
  /\ enemyWillDie = FALSE
  /\ combo = 0
  /\ \E selected \in DefenseSelections :
       /\ sessionState = [selectedKanaIds |-> selected, enemiesDefeated |-> 0,
                          totalCorrect |-> 0, totalAttempts |-> 0]
       /\ storage \in DefenseProgress(selected)
       /\ kanaCards = useKanaCards(loadProgress(storage), selected)
  /\ attacksSinceDefense = 0
  /\ timers = <<>>
  /\ lastEvent = "init"
  /\ promptGenerated = FALSE

\* generatePrompt("defense") with sessionState.enemiesDefeated = n, called
\* once
DefenseGenerate ==
  \E n \in 0..MaxQuizEnemiesDefeated :
    /\ lastEvent = "init"
    /\ sessionState' = [sessionState EXCEPT !.enemiesDefeated = n]
    /\ promptType' = "defense"
    /\ NewPrompt("defense", n, kanaCards)
    /\ lastEvent' = "generate"
    /\ promptGenerated' = TRUE
    /\ UNCHANGED <<currentEnemy, playerLives, promptAttempt, isGameOver, enemyDefeated,
                   enemyWillDie, combo, currentHealth, kanaCards, storage,
                   attacksSinceDefense, timers, matchVars, splitVars>>

SpecDefense == InitDefense /\ [][DefenseGenerate]_vars

(***************************************************************************)
(* SpecWord: prompt generation for selections of hiragana alone and of     *)
(* hiragana with a katakana                                                *)
(***************************************************************************)
WordSelections == {{"a", "sa"}, KanaIds, KanaIds \cup KatakanaIds}

InitWord == InitWith(WordSelections)

SpecWord == InitWord /\ [][QuizGenerate]_vars

(***************************************************************************)
(* SpecSplit: splitWordIntoKana applied to one word, one iteration of its  *)
(* while loop at a time                                                    *)
(***************************************************************************)
\* the code units of the words: the glyphs of a and ki, the second unit of
\* the glyph of kya, which is no glyph by itself, and the long vowel mark,
\* which no glyph of the catalog contains
SplitUnits == {"U+3042", "U+304D", "U+3083", "U+30FC"}

\* the longest word that is split
MaxSplitLen == 4

SplitWords == SeqsUpTo(SplitUnits, MaxSplitLen)

\* the keys of kanaCharacterMap
kanaStrings == {character[id] : id \in DOMAIN character}

\* kanaCharacterMap.get(kanaStr)
kanaCharacterMap(kanaStr) == CHOOSE id \in DOMAIN character : character[id] = kanaStr

\* the length of the longest glyph of the catalog
LongestGlyph ==
  CHOOSE n \in {Len(g) : g \in kanaStrings} : \A g \in kanaStrings : Len(g) <= n

\* mutant: the glyphs are tried by ascending length
RECURSIVE shortestFirst(_)
shortestFirst(n) == IF n = 0 THEN <<>> ELSE Append(shortestFirst(n - 1), n)

\* the lengths of the glyphs in the order of allKanaStrings, which is
\* sorted with (a, b) => b.length - a.length
RECURSIVE longestFirst(_)
longestFirst(n) == IF n = 0 THEN <<>> ELSE <<n>> \o longestFirst(n - 1)

\* the for loop over allKanaStrings: the first glyph, in the order of the
\* lengths, that word.substring(i, i + kanaStr.length) equals; <<>> when the
\* loop ends with matched = false
RECURSIVE firstMatch(_, _, _)
firstMatch(lengths, w, i) ==
  IF lengths = <<>> THEN <<>>
  ELSE LET found == {kanaStr \in kanaStrings :
                       /\ Len(kanaStr) = Head(lengths)
                       /\ substring(w, i, i + Len(kanaStr)) = kanaStr}
       IN IF found # {} THEN CHOOSE kanaStr \in found : TRUE
          ELSE firstMatch(Tail(lengths), w, i)

InitSplit ==
  /\ MatchIdle
  /\ GameIdle
  /\ currentPrompt = <<>>
  /\ word \in SplitWords
  /\ wordIndex = 0
  /\ result = <<>>
  /\ skipped = {}

\* an iteration of while (i < word.length) in which a glyph matches
SplitMatch ==
  /\ wordIndex < Len(word)
  /\ \E kanaStr \in {firstMatch(longestFirst(LongestGlyph), word, wordIndex)} :
       /\ kanaStr # <<>>
       /\ result' = Append(result, kanaCharacterMap(kanaStr))
       /\ wordIndex' = wordIndex + Len(kanaStr)
  /\ UNCHANGED <<word, skipped, quizVars, gameVars, matchVars, cacheVars>>

\* an iteration in which no glyph matches: i++
SplitSkip ==
  /\ wordIndex < Len(word)
  /\ firstMatch(longestFirst(LongestGlyph), word, wordIndex) = <<>>
  /\ wordIndex' = wordIndex + 1
  /\ skipped' = skipped \cup {wordIndex}
  /\ UNCHANGED <<word, result, quizVars, gameVars, matchVars, cacheVars>>

NextSplit == SplitMatch \/ SplitSkip

SpecSplit == InitSplit /\ [][NextSplit]_vars

\* the loop runs on as long as its condition holds
SpecSplitFair == SpecSplit /\ WF_vars(NextSplit)


(***************************************************************************)
(* SpecCache: getAvailableWords called again and again, each time with any *)
(* set of kana of the catalog, starting from the cache of the module's     *)
(* initialisation                                                          *)
(***************************************************************************)
\* the kana a call may pass: hiragana of the corpus, a katakana and two
\* hiragana that no word holds
CacheKana == KanaIds \cup KatakanaIds \cup {"e", "i"}

InitCache ==
  /\ MatchIdle
  /\ GameIdle
  /\ currentPrompt = <<>>
  /\ SplitIdle

\* getAvailableWords(availableKana); the selection is the argument of the
\* call and cachedAvailableWords is what the call returns
CacheCall ==
  \E availableKana \in SUBSET CacheKana :
    /\ \E c \in {getAvailableWords(wordCache, availableKana)} :
         /\ cachedAvailableKanaIds' = c.cachedAvailableKanaIds
         /\ cachedAvailableWords' = c.cachedAvailableWords
    /\ sessionState' = [sessionState EXCEPT !.selectedKanaIds = availableKana]
    /\ lastEvent' = "getAvailableWords"
    /\ UNCHANGED <<currentEnemy, playerLives, promptAttempt, isGameOver, enemyDefeated,
                   enemyWillDie, combo, currentHealth, kanaCards, storage, timers,
                   promptGenerated, attacksSinceDefense, quizVars, matchVars,
                   splitVars>>

SpecCache == InitCache /\ [][CacheCall]_vars

(***************************************************************************)
(* Inputs built from accepted romaji                                       *)
(***************************************************************************)
Accepted(id) == {toLowerCase(Romaji[id][i]) : i \in 1..Len(Romaji[id])}

\* no accepted romaji of the kana is a proper prefix of another one
PrefixFree(id) == \A r1, r2 \in Accepted(id) : r1 # r2 => ~IsPrefix(r1, r2)

\* the longest list of accepted romaji in the catalog
MaxAlternatives ==
  CHOOSE n \in {Len(Romaji[id]) : id \in KanaIds} :
    \A id \in KanaIds : Len(Romaji[id]) <= n

\* one accepted romaji (by its index in the catalog entry) per prompt position
Choices(prompt) ==
  {c \in [1..Len(prompt) -> 1..MaxAlternatives] :
     \A i \in 1..Len(prompt) : c[i] <= Len(Romaji[prompt[i]])}

Tok(prompt, c, i) == toLowerCase(Romaji[prompt[i]][c[i]])

RECURSIVE Offset(_, _, _)
Offset(prompt, c, i) ==
  IF i <= 1 THEN 0 ELSE Offset(prompt, c, i - 1) + Len(Tok(prompt, c, i - 1))

BuiltLen(prompt, c) == Offset(prompt, c, Len(prompt) + 1)

\* the part of s that answers position i when the tokens have the lengths of c
Slice(s, prompt, c, i) ==
  substring(s, Offset(prompt, c, i), Offset(prompt, c, i) + Len(Tok(prompt, c, i)))

\* s is the concatenation of the chosen romaji, in order
BuiltFrom(s, prompt, c) ==
  /\ Len(s) = BuiltLen(prompt, c)
  /\ \A i \in 1..Len(prompt) : Slice(s, prompt, c, i) = Tok(prompt, c, i)

\* s is that concatenation with the token of position k replaced by a token
\* of the same length that is not an accepted romaji of the kana
WrongAt(s, prompt, c, k) ==
  /\ Len(s) = BuiltLen(prompt, c)
  /\ \A i \in 1..Len(prompt) : i # k => Slice(s, prompt, c, i) = Tok(prompt, c, i)
  /\ Slice(s, prompt, c, k) \notin Accepted(prompt[k])

OnlyWrong(bs, n, k) == Len(bs) = n /\ \A i \in 1..n : bs[i] <=> (i # k)

(***************************************************************************)
(* C1  the verdict of checkAnswers is all-correct iff every kana matched   *)
(* and the cursor ended at the end of the trimmed, lower-cased input       *)
(* (trailing characters make the answer incorrect).                        *)
(* The inline loop of checkAnswers never compares its cursor with the      *)
(* length of the input: this statement is violated.                        *)
(***************************************************************************)
C1_AllCorrectIffConsumed ==
  checked.called =>
    (checked.allCorrect <=>
       (AllTrue(checked.matches) /\ checked.inputIndex = Len(Normalize(input))))

(***************************************************************************)
(* C2  as claimed: an input that concatenates one accepted romaji per kana *)
(* is all-correct with every kana marked correct, for any catalog.         *)
(***************************************************************************)
C2_AlignmentAnyCatalog ==
  pc = "done" =>
    \A c \in Choices(currentPrompt) :
      BuiltFrom(Normalize(input), currentPrompt, c) =>
        /\ validated.allCorrect
        /\ Len(validated.matches) = Len(currentPrompt) /\ AllTrue(validated.matches)
        /\ checked.allCorrect
        /\ Len(checked.matches) = Len(currentPrompt) /\ AllTrue(checked.matches)

(***************************************************************************)
(* C2  amended: the same, for a prompt none of whose kana has an accepted  *)
(* romaji that is a proper prefix of another of its accepted romaji.       *)
(***************************************************************************)
C2_AlignmentPrefixFree ==
  pc = "done" =>
    \A c \in Choices(currentPrompt) :
      (/\ BuiltFrom(Normalize(input), currentPrompt, c)
       /\ \A i \in 1..Len(currentPrompt) : PrefixFree(currentPrompt[i])) =>
        /\ validated.allCorrect
        /\ Len(validated.matches) = Len(currentPrompt) /\ AllTrue(validated.matches)
        /\ checked.allCorrect
        /\ Len(checked.matches) = Len(currentPrompt) /\ AllTrue(checked.matches)

\* a two-kana prompt with a kana of several romaji, answered with its
\* shorter romaji, has been matched and found all-correct
C2_Witness ==
  /\ pc = "done"
  /\ currentPrompt = <<"sa", "a">>
  /\ Normalize(input) = <<"s", "a", "a">>
  /\ input # Normalize(input)
  /\ validated.allCorrect
  /\ checked.allCorrect

(***************************************************************************)
(* C3  as claimed: when exactly kana k is answered with a wrong token of   *)
(* the length of the accepted romaji it replaces and every other kana with *)
(* an accepted romaji, only index k is marked incorrect.                   *)
(***************************************************************************)
C3_NonCascadingAnyToken ==
  pc = "done" =>
    \A c \in Choices(currentPrompt) : \A k \in 1..Len(currentPrompt) :
      WrongAt(Normalize(input), currentPrompt, c, k) =>
        /\ OnlyWrong(validated.matches, Len(currentPrompt), k)
        /\ OnlyWrong(checked.matches, Len(currentPrompt), k)

(***************************************************************************)
(* C3  amended: only index k is marked incorrect when, in addition, the    *)
(* replaced romaji is the longest accepted romaji of kana k, no accepted   *)
(* romaji of kana k is a prefix of the wrong token, and no other kana of   *)
(* the prompt has an accepted romaji that is a proper prefix of another of *)
(* its accepted romaji.                                                    *)
(***************************************************************************)
C3_NonCascadingLongestToken ==
  pc = "done" =>
    \A c \in Choices(currentPrompt) : \A k \in 1..Len(currentPrompt) :
      (/\ WrongAt(Normalize(input), currentPrompt, c, k)
       /\ Len(Tok(currentPrompt, c, k)) = maxRomajiLength(currentPrompt[k])
       /\ \A r \in Accepted(currentPrompt[k]) :
            ~IsPrefix(r, Slice(Normalize(input), currentPrompt, c, k))
       /\ \A i \in 1..Len(currentPrompt) : i # k => PrefixFree(currentPrompt[i])) =>
        /\ OnlyWrong(validated.matches, Len(currentPrompt), k)
        /\ OnlyWrong(checked.matches, Len(currentPrompt), k)

\* the first of two kana was answered with a wrong token as long as its
\* longest romaji, and the second kana was still matched
C3_Witness ==
  /\ pc = "done"
  /\ currentPrompt = <<"sa", "a">>
  /\ Normalize(input) = <<"n", "n", "s", "a">>
  /\ validated.matches = <<FALSE, TRUE>>
  /\ checked.matches = <<FALSE, TRUE>>

(***************************************************************************)
(* C4  as claimed: for any input the matcher returns exactly one result    *)
(* per expected kana.                                                      *)
(***************************************************************************)
C4_OneResultPerKanaAnyInput ==
  validated.called => Len(validated.matches) = Len(currentPrompt)

(***************************************************************************)
(* C4  amended: for a non-empty prompt and any input that is not blank     *)
(* after trimming, the loop runs at most Len(prompt) iterations, every     *)
(* iteration adds one result and strictly increases the cursor, and the    *)
(* matcher returns exactly one result per kana; a blank input returns at   *)
(* once with no result.                                                    *)
(***************************************************************************)
C4_Termination ==
  /\ [](Len(matches) <= Len(currentPrompt))
  /\ [](validated.called =>
          IF Normalize(input) = <<>> THEN validated.matches = <<>> /\ matches = <<>>
          ELSE Len(validated.matches) = Len(currentPrompt))
  /\ [][matches' # matches =>
          /\ Len(matches') = Len(matches) + 1
          /\ inputIndex' > inputIndex]_vars

\* the matcher has returned after running past the end of a non-blank input
C4_Witness ==
  /\ validated.called
  /\ Len(currentPrompt) = MaxPromptLen
  /\ Len(validated.matches) = Len(currentPrompt)
  /\ inputIndex > Len(Normalize(input))
  /\ Normalize(input) # <<>>

(***************************************************************************)
(* C5  in every reachable state 0 <= playerLives <= 3, whatever the        *)
(* interleaving of submissions and life-loss callbacks.                    *)
(* The callback of enemyAttack subtracts a life without looking at         *)
(* isGameOver or at the lives left: two callbacks pending at one life take *)
(* playerLives to -1, and this statement is violated.                      *)
(***************************************************************************)
C5_LivesWithinBounds ==
  0 <= playerLives /\ playerLives <= InitialLives

(***************************************************************************)
(* C6  no prompt is generated while the enemy defeat is pending or the     *)
(* game is over.                                                           *)
(* The prompt effect returns early on enemyDefeated and enemyWillDie only: *)
(* a respawn that runs after the game is over generates a prompt, and this *)
(* statement is violated.                                                  *)
(***************************************************************************)
C6_NoPromptWhilePendingOrOver ==
  promptGenerated => ~enemyDefeated /\ ~isGameOver

(***************************************************************************)
(* C7  a submission made while the enemy defeat is pending or the game is  *)
(* over changes no card, no session counter, and neither the combo, the    *)
(* attempt counter, the enemy health nor the player lives.                 *)
(***************************************************************************)
C7_RejectedSubmissionIsNoOp ==
  [][(lastEvent' \in {"submit", "submitRejected"} /\ (enemyDefeated \/ isGameOver)) =>
       /\ lastEvent' = "submitRejected"
       /\ UNCHANGED <<kanaCards, sessionState, combo, promptAttempt,
                      currentHealth, playerLives>>]_vars

\* a submission has been rejected while the game was over and a prompt was
\* still on display
C7_Witness ==
  /\ lastEvent = "submitRejected"
  /\ isGameOver
  /\ ~enemyDefeated
  /\ Len(currentPrompt) > 0

(***************************************************************************)
(* C8  each enemy defeat increments enemiesDefeated exactly once: the      *)
(* counter only moves by 1, and only while a defeat is pending, even when  *)
(* the defeat effect has run again before the respawn timer fired.         *)
(* The defeat effect of useGameState.ts sets a timer without clearing the  *)
(* one it set before: both fire, and this statement is violated.           *)
(***************************************************************************)
C8_OneSpawnPerDefeat ==
  [][sessionState'.enemiesDefeated # sessionState.enemiesDefeated =>
       /\ enemyDefeated
       /\ sessionState'.enemiesDefeated = sessionState.enemiesDefeated + 1]_vars

(***************************************************************************)
(* C9  a generated prompt is a defense prompt iff the attempt counter is   *)
(* positive and a multiple of the enemy's attack threshold at generation   *)
(* time; otherwise it is an attack prompt.                                 *)
(***************************************************************************)
C9_PhaseOfGeneratedPrompt ==
  promptGenerated =>
    /\ promptType \in {"attack", "defense"}
    /\ (promptType = "defense") <=>
         (promptAttempt > 0 /\ promptAttempt % currentEnemy.attack = 0)

\* with threshold 2, the prompt generated after the second attempt is a
\* defense prompt
C9_Witness ==
  /\ promptGenerated
  /\ currentEnemy.attack = 2
  /\ promptAttempt = 2
  /\ promptType = "defense"
  /\ lastEvent = "submit"

(***************************************************************************)
(* C10  every accepted submission adds exactly 1 to the attempt counter,   *)
(* in both phases and for right and wrong answers; nothing else raises the *)
(* counter, and it only ever goes down to 0, on an enemy spawn.            *)
(***************************************************************************)
C10_AttemptCounter ==
  [][/\ (lastEvent' = "submit" => promptAttempt' = promptAttempt + 1)
     /\ (promptAttempt' > promptAttempt => lastEvent' = "submit")
     /\ (promptAttempt' < promptAttempt =>
           /\ promptAttempt' = 0
           /\ lastEvent' = "respawn"
           /\ sessionState'.enemiesDefeated = sessionState.enemiesDefeated + 1)]_vars

\* a wrong defense answer has been accepted and counted: the counter went
\* from the enemy's threshold to the next attempt
C10_Witness ==
  /\ lastEvent = "submit"
  /\ promptAttempt = currentEnemy.attack + 1
  /\ combo = 0
  /\ Len(timers) > 0
  /\ timers[Len(timers)].kind = "life"


(***************************************************************************)
(* C11: for an enemy whose attack stat is X, every defense prompt is       *)
(* preceded by exactly X attack-prompt attempts since the enemy spawned or *)
(* since the previous defense prompt.                                      *)
(***************************************************************************)
C11_DefenseAfterExactlyAttackStat ==
  (promptGenerated /\ promptType = "defense")
    => attacksSinceDefense = currentEnemy.attack

\* what the program does instead: the first defense prompt of an enemy comes
\* after X attack prompts, every later one after X - 1
C11_DefenseEveryAttackStatAttempts ==
  (promptGenerated /\ promptType = "defense")
    => /\ promptAttempt % currentEnemy.attack = 0
       /\ attacksSinceDefense =
            IF promptAttempt = currentEnemy.attack
            THEN currentEnemy.attack ELSE currentEnemy.attack - 1


AnswerChecked == lastEvent \in {"answer", "answerNotStored"}

C13_LedgerMonotonicity ==
  /\ [](\A id \in DOMAIN kanaCards :
          /\ 0 <= kanaCards[id].totalCorrect
          /\ kanaCards[id].totalCorrect <= kanaCards[id].totalShown)
  /\ [][AnswerChecked' =>
          \A i \in 1..Len(currentPrompt) :
            LET id == currentPrompt[i]
                before == kanaCardOf(id)
            IN /\ id \in DOMAIN kanaCards'
               /\ kanaCards'[id].totalShown = before.totalShown + 1
               /\ kanaCards'[id].totalCorrect =
                    before.totalCorrect + (IF checked'.matches[i] THEN 1 ELSE 0)]_vars

\* a prompt of two kana was answered with the first right and the second
\* wrong, and both answers are in the ledger
C13_Witness ==
  /\ AnswerChecked
  /\ checked.matches = <<TRUE, FALSE>>
  /\ sessionState.totalAttempts = 2
  /\ \E id \in DOMAIN kanaCards :
       kanaCards[id].totalShown = 1 /\ kanaCards[id].totalCorrect = 0
  /\ \E id \in DOMAIN kanaCards :
       kanaCards[id].totalShown >= 1 /\ kanaCards[id].totalCorrect = kanaCards[id].totalShown


(***************************************************************************)
(* C14: a card is created lazily.  A card exists for a character only      *)
(* after that character has been answered at least once: every character  *)
(* that was never shown has no card and is treated as new by selection,    *)
(* also at session start with no saved progress.                           *)
(***************************************************************************)
\* getNextKana / hasNewKana: a kana is new when it has no card
isNewKana(id) == id \notin DOMAIN kanaCards

\* the counters say that the kana was never shown
NeverShown(id) == kanaCardOf(id).totalShown = 0

C14_CardsCreatedLazily ==
  \A id \in sessionState.selectedKanaIds : NeverShown(id) => isNewKana(id)


(***************************************************************************)
(* C15: after every accepted answer submission the persisted card map      *)
(* equals the in-memory card map: every card mutation is saved at once and *)
(* no card that existed before the submission is lost from memory or from  *)
(* storage, for any sequence of submissions.                               *)
(***************************************************************************)
\* the card map of a stored item; an item that cannot be parsed or that has
\* no kanaCards holds no card
persistedCards(stored) ==
  IF "kanaCards" \in DOMAIN stored THEN stored.kanaCards ELSE NoProgress.kanaCards

C15_StorageEqualsMemoryAfterAnswer ==
  AnswerChecked => (storage.saved /\ persistedCards(storage) = kanaCards)

\* as amended: the two maps are equal after every submission whose write
\* localStorage accepted; a write that throws leaves storage as it was; in
\* both cases every card of the memory and of the storage is still there
C15_StoredAnswerEqualsMemory ==
  /\ [](lastEvent = "answer" => (storage.saved /\ persistedCards(storage) = kanaCards))
  /\ [][AnswerChecked' =>
          /\ DOMAIN kanaCards \subseteq DOMAIN kanaCards'
          /\ DOMAIN persistedCards(storage) \subseteq DOMAIN persistedCards(storage')
          /\ lastEvent' = "answerNotStored" => storage' = storage]_vars

\* a session that began with the saved card of sa alone: after two answers,
\* the second one stored, the storage holds the cards of both kana
C15_Witness ==
  /\ lastEvent = "answer"
  /\ sessionState.totalAttempts = 4
  /\ DOMAIN storage.kanaCards = {"a", "sa"}
  /\ storage.kanaCards = kanaCards
  /\ kanaCards["sa"].totalShown = 3


WordMode ==
  getNextWord(wordCache, sessionState.selectedKanaIds,
              sessionState.enemiesDefeated + WordLengthBonus) # {<<>>}

AttackAnswers ==
  IF promptAttempt = 0 THEN 0
  ELSE promptAttempt - ((promptAttempt - 1) \div currentEnemy.attack)

PendingHits == Cardinality({i \in 1..Len(timers) : timers[i].kind = "hit"})

\* the correct attack answers whose hit has been applied (the hit is
\* applied HitDelay ms after the answer)
HitsLanded == AttackAnswers - PendingHits

combatState ==
  <<currentEnemy, currentHealth, playerLives, promptAttempt, combo, promptType,
    enemyDefeated, enemyWillDie, sessionState.enemiesDefeated>>

\* C19: game over is terminal: once isGameOver is true it stays true and no
\* later transition changes the combat state; no enemy is spawned and
\* enemiesDefeated is not incremented afterwards, even by a respawn timer or
\* a hit callback that was set before the game ended
C19_GameOverIsTerminal ==
  [][isGameOver => (isGameOver' /\ combatState' = combatState)]_vars

\* the part of C19 about spawning alone: after game over no respawn callback
\* replaces the enemy or counts a defeat
C19_NoSpawnAfterGameOver ==
  [][isGameOver => /\ currentEnemy' = currentEnemy
                   /\ sessionState'.enemiesDefeated = sessionState.enemiesDefeated]_vars

\* the part of C19 that the callbacks keep: isGameOver is never reset
C19_GameOverStays == [][isGameOver => isGameOver']_vars

\* inputs that are empty after input.trim()
BlankInputs == {<<>>, <<" ">>, <<" ", " ">>}

(***************************************************************************)
(* C20  a submission whose input is empty after trimming is a no-op: the   *)
(* answer is not checked and neither the cards, the stored progress, the   *)
(* session totals, the combo, the attempt counter, the health, the lives,  *)
(* the prompt nor any timer changes.                                       *)
(* No step is the accepted submission of a blank input, and a refused      *)
(* submission leaves all of these as they were.                            *)
(***************************************************************************)
C20_BlankSubmissionIsNoOp ==
  [][/\ \A inp \in BlankInputs :
          /\ ~canSubmit(inp)
          /\ ~SubmitAnswer(inp, MaxTotalAttempts)
     /\ lastEvent' = "submitRejected" =>
          UNCHANGED <<kanaCards, storage, sessionState, combo, promptAttempt,
                      currentHealth, playerLives, currentPrompt, promptType,
                      enemyWillDie, enemyDefeated, timers, matchVars>>]_vars

\* a submission has been refused in a state where every input with a
\* character in it is accepted: the refused input was blank
C20_Witness ==
  /\ lastEvent = "submitRejected"
  /\ \A inp \in GameInputs : trim(inp) # <<>> => canSubmit(inp)
  /\ combo > 0

(***************************************************************************)
(* C21  whenever the enemy's health reaches 0 the enemy enters the         *)
(* defeat-pending state and the prompt is cleared: in no reachable state   *)
(* is the health 0 with no hit callback in flight and the enemy not        *)
(* flagged defeated, also when two hits land before the health held by     *)
(* playHit is refreshed.                                                   *)
(* playHit compares the health of the last render, not the health it is    *)
(* about to change: of two hits that land before the render, the second    *)
(* takes the health from 1 to 0 and reports no defeat, and this statement  *)
(* is violated.                                                            *)
(***************************************************************************)
C21_DefeatedWhenHealthZero ==
  (currentHealth = 0 /\ PendingHits = 0) => (enemyDefeated /\ currentPrompt = <<>>)

\* the step is an accepted answer to a prompt of the given phase, with every
\* kana of the prompt correct or not
AnswerStep(type, allCorrect) ==
  /\ lastEvent' = "submit"
  /\ promptType = type
  /\ allCorrect <=>
       sessionState'.totalCorrect = sessionState.totalCorrect + Len(currentPrompt)

(***************************************************************************)
(* C22  in the attack phase a fully correct answer increments the combo by *)
(* 1 and deals damage ceil(1 x multiplier of the new combo): 1 while the   *)
(* new combo is below 3 and 2 from 3 on; the player's lives are unchanged. *)
(* The damage is handed to the 500 ms callback of playerAttack, which      *)
(* takes it from the enemy's health.                                       *)
(***************************************************************************)
C22_CorrectAttack ==
  [][/\ AnswerStep("attack", TRUE) =>
          /\ combo' = combo + 1
          /\ timers' = Append(timers, Timer("hit", IF combo' < 3 THEN 1 ELSE 2, HitDelay))
          /\ UNCHANGED <<playerLives, currentHealth>>
     /\ lastEvent' = "hit" =>
          /\ \E i \in 1..Len(timers) :
               /\ timers[i].kind = "hit"
               /\ timers[i].amount \in {1, 2}
               /\ currentHealth' = Max(0, currentHealth - timers[i].amount)
          /\ UNCHANGED playerLives]_vars

\* a correct attack answer has taken the combo to 3 or more and its hit of
\* 2 is pending
C22_Witness ==
  /\ lastEvent = "submit"
  /\ attacksSinceDefense > 0
  /\ combo >= 3
  /\ Len(timers) > 0
  /\ timers[Len(timers)] = Timer("hit", 2, HitDelay)

(***************************************************************************)
(* C23  in the attack phase an answer that is not fully correct resets the *)
(* combo to 0, heals the enemy by exactly 1 health point, capped at its    *)
(* maximum health, and costs no life: no life is taken and no enemy attack *)
(* is scheduled.                                                           *)
(***************************************************************************)
C23_IncorrectAttack ==
  [][AnswerStep("attack", FALSE) =>
       /\ combo' = 0
       /\ currentHealth' = Min(currentEnemy.health, currentHealth + 1)
       /\ UNCHANGED <<playerLives, isGameOver, timers>>]_vars

\* the last answer was a wrong attack answer that healed the enemy from two
\* below its maximum to one below
C23_Witness ==
  /\ lastEvent = "submit"
  /\ attacksSinceDefense > 0
  /\ combo = 0
  /\ currentHealth = currentEnemy.health - 1
  /\ sessionState.totalCorrect < sessionState.totalAttempts

(***************************************************************************)
(* C24  in the defense phase a fully correct answer increments the combo   *)
(* by 1 and changes neither the lives nor the enemy's health; an answer    *)
(* that is not fully correct resets the combo to 0 and costs exactly one   *)
(* life, and when the lives thereby reach 0 isGameOver is set in the same  *)
(* transition: the game is over exactly when no life is left.              *)
(* The life is taken by the 500 ms callback of enemyAttack, one callback   *)
(* for each failed defense.                                                *)
(***************************************************************************)
C24_DefenseAnswer ==
  /\ [](isGameOver <=> playerLives <= 0)
  /\ [][/\ AnswerStep("defense", TRUE) =>
             /\ combo' = combo + 1
             /\ UNCHANGED <<playerLives, currentHealth, isGameOver, timers>>
        /\ AnswerStep("defense", FALSE) =>
             /\ combo' = 0
             /\ timers' = Append(timers, Timer("life", 1, HitDelay))
             /\ UNCHANGED <<playerLives, currentHealth, isGameOver>>
        /\ lastEvent' = "life" =>
             /\ playerLives' = playerLives - 1
             /\ \E i \in 1..Len(timers) :
                  /\ timers[i].kind = "life"
                  /\ timers' = RemoveAt(timers, i)
             /\ UNCHANGED currentHealth
        /\ playerLives' # playerLives => lastEvent' = "life"]_vars

\* the third failed defense has taken the last of the three lives and the
\* game is over
C24_Witness ==
  /\ lastEvent = "life"
  /\ playerLives = 0
  /\ isGameOver
  /\ combo = 0

\* the documented ranges of an enemy's stats
DocumentedEnemy(enemy) == enemy.health \in 5..20 /\ enemy.attack >= 1

\* every enemy generateNewEnemy yields, for all values of its two rolls
EveryEnemyDocumented ==
  \A healthRoll \in 0..(HealthSpan - 1), attackRoll \in 0..(AttackSpan - 1) :
    DocumentedEnemy(generateNewEnemy(healthRoll, attackRoll))

(***************************************************************************)
(* C25  when the respawn delay elapses, one transition replaces the enemy  *)
(* with a freshly generated one whose stats lie in the documented ranges   *)
(* (health 5..20, attack threshold >= 1), resets the attempt counter to 0, *)
(* clears the defeat-pending and will-die flags and increments             *)
(* enemiesDefeated by 1; the first prompt generated for the new enemy is   *)
(* an attack prompt.  The enemy and enemiesDefeated change in no other     *)
(* transition.                                                             *)
(***************************************************************************)
C25_Respawn ==
  /\ [](DocumentedEnemy(currentEnemy) /\ EveryEnemyDocumented)
  /\ [][/\ lastEvent' = "respawn" =>
             /\ \E i \in 1..Len(timers) :
                  /\ timers[i] = Timer("respawn", 0, RespawnDelay)
                  /\ timers' = RemoveAt(timers, i)
             /\ DocumentedEnemy(currentEnemy')
             /\ currentHealth' = currentEnemy'.health
             /\ promptAttempt' = 0
             /\ ~enemyDefeated'
             /\ ~enemyWillDie'
             /\ sessionState'.enemiesDefeated = sessionState.enemiesDefeated + 1
             /\ promptGenerated'
             /\ promptType' = "attack"
             /\ Len(currentPrompt') > 0
        /\ (\/ currentEnemy' # currentEnemy
            \/ sessionState'.enemiesDefeated # sessionState.enemiesDefeated)
             => lastEvent' = "respawn"]_vars

\* the first enemy was defeated and the respawn callback has just replaced
\* it: the attack prompt of the new enemy is on display
C25_Witness ==
  /\ lastEvent = "respawn"
  /\ sessionState.enemiesDefeated = 1
  /\ promptAttempt = 0
  /\ promptType = "attack"
  /\ currentPrompt # <<>>
  /\ currentHealth = currentEnemy.health
  /\ ~isGameOver

\* the phase rule, for every attack stat generateNewEnemy yields: the
\* attempt after a defense attempt is an attack attempt
PhaseRuleAlternates ==
  \A attackRoll \in 0..(AttackSpan - 1), attempt \in 0..MaxTotalAttempts :
    LET attack == generateNewEnemy(0, attackRoll).attack
    IN nextPromptType(attempt, attack) = "defense"
         => nextPromptType(attempt + 1, attack) = "attack"

(***************************************************************************)
(* C26  two consecutive prompts for the same enemy are never both defense  *)
(* prompts: after a defense prompt is answered the next prompt is an       *)
(* attack prompt, for every enemy the generator can produce.               *)
(***************************************************************************)
C26_NoTwoDefensePrompts ==
  /\ []PhaseRuleAlternates
  /\ [][(promptType = "defense" /\ promptGenerated') => promptType' = "attack"]_vars

\* a defense prompt has been answered and the prompt generated after it is
\* an attack prompt for the same enemy
C26_Witness ==
  /\ lastEvent = "submit"
  /\ promptAttempt > 0
  /\ attacksSinceDefense = 0
  /\ promptGenerated
  /\ promptType = "attack"

\* the combo counts compared: every count a session of Spec can reach, and
\* one more
ComboCounts == 0..(MaxTotalAttempts + 1)

\* the multiplier and the think time of every combo count, and their order
\* from one count to the next
ComboTiersDocumented ==
  \A c \in ComboCounts :
    /\ getComboConfig(c).multiplier =
         IF c <= 2 THEN 10 ELSE IF c <= 4 THEN 15 ELSE 20
    /\ getComboConfig(c).timerMs =
         IF c <= 2 THEN 7000 ELSE IF c <= 4 THEN 5000 ELSE 3000
    /\ getComboConfig(c).multiplier <= getComboConfig(c + 1).multiplier
    /\ getComboConfig(c).timerMs >= getComboConfig(c + 1).timerMs

(***************************************************************************)
(* C27  the combo multiplier is non-decreasing in the combo (1.0 for 0-2,  *)
(* 1.5 for 3-4, 2.0 from 5), the allowed think time is non-increasing      *)
(* (7000, 5000, 3000 ms), and the combo is never negative in a reachable   *)
(* state.                                                                  *)
(***************************************************************************)
C27_ComboTiers ==
  /\ combo >= 0
  /\ getComboMultiplierTenths(combo) = getComboConfig(combo).multiplier
  /\ ComboTiersDocumented

\* a combo of 5 has been reached: the three tiers have been in force
C27_Witness ==
  /\ lastEvent = "submit"
  /\ combo = 5
  /\ getComboConfig(combo).multiplier = 20

(***************************************************************************)
(* C28  when the combo-expiry countdown reaches 0 the combo is reset to 0  *)
(* and nothing else changes: the enemy and its health, the lives, the      *)
(* attempt counter, the phase, the prompt, the session totals, the cards   *)
(* and the pending callbacks are as before, and no prompt is generated.    *)
(***************************************************************************)
C28_ExpiryResetsComboOnly ==
  [][lastEvent' = "manaTimer" =>
       /\ combo' = 0
       /\ ~promptGenerated'
       /\ UNCHANGED <<currentEnemy, currentHealth, playerLives, promptAttempt,
                      promptType, currentPrompt, sessionState, kanaCards, storage,
                      isGameOver, enemyDefeated, enemyWillDie, timers>>]_vars

\* the countdown has expired in the middle of a fight: the combo is 0, the
\* enemy is wounded and a prompt is on display
C28_Witness ==
  /\ lastEvent = "manaTimer"
  /\ combo = 0
  /\ promptAttempt > 0
  /\ currentHealth < currentEnemy.health
  /\ Len(currentPrompt) > 0

(***************************************************************************)
(* C29  the combo-expiry countdown advances, and can expire, only while a  *)
(* prompt is live, the game is not over and no enemy death is pending: it  *)
(* never resets the combo during the will-die / defeat / respawn window or *)
(* after game over, where the combo does not change at all.                *)
(***************************************************************************)
C29_ExpiryOnlyWhileLive ==
  [][/\ lastEvent' = "manaTimer" =>
          /\ Len(currentPrompt) > 0
          /\ ~isGameOver
          /\ ~enemyWillDie
          /\ ~enemyDefeated
     /\ (isGameOver \/ enemyWillDie \/ enemyDefeated) => combo' = combo]_vars

\* a correct attack has set enemyWillDie while a combo is running and the
\* answered prompt is still on display: only the flag stops the countdown
C29_Witness ==
  /\ enemyWillDie
  /\ ~enemyDefeated
  /\ ~isGameOver
  /\ combo > 0
  /\ Len(currentPrompt) > 0

\* the grade the answer to a card must get: counters as they were before
\* the answer, accuracy timesCorrect / timesShown against 0.8 and 0.5
DocumentedGrade(timesShown, timesCorrect, correct) ==
  IF ~correct THEN 1
  ELSE IF timesShown >= 3 /\ 10 * timesCorrect >= 8 * timesShown THEN 4
  ELSE IF timesShown >= 3 /\ 10 * timesCorrect < 5 * timesShown THEN 2
  ELSE 3

(***************************************************************************)
(* C30  an incorrect answer is graded 'again' (1); a correct answer is     *)
(* graded from the counters as they were before this answer: 'easy' (4) if *)
(* timesShown >= 3 and timesCorrect / timesShown >= 0.8, 'hard' (2) if     *)
(* timesShown >= 3 and timesCorrect / timesShown < 0.5, and 'good' (3)     *)
(* otherwise.  The card the scheduler returns for that grade is the one    *)
(* kept.                                                                   *)
(***************************************************************************)
C30_GradeOfAnswer ==
  [][AnswerChecked' =>
       \A i \in 1..Len(currentPrompt) :
         LET id == currentPrompt[i]
             before == kanaCardOf(id)
         IN Cardinality({j \in 1..Len(currentPrompt) : currentPrompt[j] = id}) = 1 =>
              kanaCards'[id].card =
                DocumentedGrade(before.totalShown, before.totalCorrect,
                                kanaCards'[id].totalCorrect = before.totalCorrect + 1)]_vars

\* a kana that had been answered wrongly more often than not, at least
\* three times shown, has now been answered correctly: the grade is 'hard'
C30_Witness ==
  /\ lastEvent = "answer"
  /\ \E id \in DOMAIN kanaCards :
       /\ kanaCards[id].card = 2
       /\ kanaCards[id].totalShown >= 4

(***************************************************************************)
(* C31  a defense prompt generated when n enemies have been defeated has   *)
(* min(n + 1, 3, number of available characters) characters, pairwise      *)
(* distinct and all available; they are among the (up to) 10 available     *)
(* characters of lowest raw accuracy (timesCorrect / timesShown, 0 when    *)
(* never shown): the characters of the prompt and the available characters *)
(* of lower accuracy than one of them are at most 10; and the prompt       *)
(* carries no source word.                                                 *)
(***************************************************************************)
\* timesCorrect(a) / timesShown(a) < timesCorrect(b) / timesShown(b)
RawAccuracyLower(a, b) ==
  LET correct(id) == IF kanaCardOf(id).totalShown > 0 THEN kanaCardOf(id).totalCorrect ELSE 0
      shown(id) == IF kanaCardOf(id).totalShown > 0 THEN kanaCardOf(id).totalShown ELSE 1
  IN correct(a) * shown(b) < correct(b) * shown(a)

WordCandidates ==
  {w \in hiraganaWords \cup katakanaWords :
     /\ Len(w) <= sessionState.enemiesDefeated + 2
     /\ \A i \in 1..Len(w) :
          w[i] \in sessionState.selectedKanaIds \/ w[i] \in ModifierIds}

C32_WordModeIffThreshold ==
  (lastEvent = "generate" /\ promptType = "attack") =>
    /\ currentWordString # NoWordString <=> Cardinality(WordCandidates) >= 100
    /\ currentWordString # NoWordString => currentPrompt \in WordCandidates

PrefixGlyphs(i) ==
  {character[id] : id \in {k \in DOMAIN character :
                             /\ i + Len(character[k]) <= Len(word)
                             /\ SubSeq(word, i + 1, i + Len(character[k])) = character[k]}}

\* the glyphs of the characters, one after the other
RECURSIVE GlyphsOf(_)
GlyphsOf(kana) ==
  IF kana = <<>> THEN <<>> ELSE character[Head(kana)] \o GlyphsOf(Tail(kana))

\* the first n code units of the word without the skipped positions; the
\* positions count from 0
RECURSIVE Unskipped(_)
Unskipped(n) ==
  IF n = 0 THEN <<>>
  ELSE IF (n - 1) \in skipped THEN Unskipped(n - 1)
  ELSE Append(Unskipped(n - 1), word[n])

C34_Segmenter ==
  /\ <>(wordIndex = Len(word))
  /\ [](wordIndex <= Len(word))
  /\ [](GlyphsOf(result) = Unskipped(wordIndex))
  /\ [][/\ wordIndex' > wordIndex
        /\ IF PrefixGlyphs(wordIndex) = {}
           THEN /\ wordIndex' = wordIndex + 1
                /\ result' = result
           ELSE \E id \in DOMAIN character :
                  /\ result' = Append(result, id)
                  /\ character[id] \in PrefixGlyphs(wordIndex)
                  /\ \A g \in PrefixGlyphs(wordIndex) : Len(g) <= Len(character[id])
                  /\ wordIndex' = wordIndex + Len(character[id])]_splitVars

\* the word is scanned to its end: a glyph of two code units was emitted
\* where the glyph of ki is a prefix too, and a position was skipped
C34_Witness ==
  /\ wordIndex = Len(word)
  /\ \E k \in 1..Len(result) : result[k] = "kya"
  /\ skipped # {}
  /\ Len(word) = MaxSplitLen

(***************************************************************************)
(* C35  when the quiz mounts and the persisted progress is missing, is not *)
(* parsable or has no kanaCards, the session starts with a fresh card for  *)
(* every selected character; and when saving the progress fails, the       *)
(* answer is recorded in memory as it is when saving succeeds: the cards   *)
(* and the session totals are updated, the result is reported and the next *)
(* prompt is generated, while the persisted item stays as it was.          *)
(***************************************************************************)
C35_LoadAndSaveFailures ==
  /\ []((lastEvent = "init" /\ (~storage.saved \/ "kanaCards" \notin DOMAIN storage))
          => kanaCards = [id \in sessionState.selectedKanaIds |->
                            [card |-> EmptyCard, totalShown |-> 0, totalCorrect |-> 0]])
  /\ [][lastEvent' = "answerNotStored" =>
          /\ storage' = storage
          /\ checked'.called
          /\ sessionState'.totalAttempts = sessionState.totalAttempts + Len(currentPrompt)
          /\ \A i \in 1..Len(currentPrompt) :
               kanaCards'[currentPrompt[i]].totalShown =
                 kanaCardOf(currentPrompt[i]).totalShown + 1
          /\ Len(currentPrompt') > 0]_vars

\* the stored item could not be parsed when the quiz mounted, and the save
\* after the first answer failed
C35_Witness ==
  /\ lastEvent = "answerNotStored"
  /\ storage = UnparsableProgress
  /\ sessionState.totalAttempts = Len(input)
  /\ \E id \in DOMAIN kanaCards : kanaCards[id].totalShown = 1

(***************************************************************************)
(* C36  every occurrence of a character in an answered prompt is recorded: *)
(* after a submission each character of the prompt has its totalShown      *)
(* grown by the number of its occurrences in the prompt, so that the sum   *)
(* of totalShown over the ledger grows by as much as the session's         *)
(* totalAttempts.                                                          *)
(***************************************************************************)
\* the number of occurrences of id in a prompt
occurrences(prompt, id) == Cardinality({i \in 1..Len(prompt) : prompt[i] = id})

RECURSIVE sumShown(_, _)
sumShown(cards, ids) ==
  IF ids = {} THEN 0
  ELSE LET id == CHOOSE x \in ids : TRUE
       IN cards[id].totalShown + sumShown(cards, ids \ {id})

\* the sum of totalShown over the ledger
totalShownOf(cards) == sumShown(cards, DOMAIN cards)

C36_EveryOccurrenceRecorded ==
  [][AnswerChecked' =>
       /\ \A i \in 1..Len(currentPrompt) :
            kanaCards'[currentPrompt[i]].totalShown =
              kanaCardOf(currentPrompt[i]).totalShown
                + occurrences(currentPrompt, currentPrompt[i])
       /\ totalShownOf(kanaCards') - totalShownOf(kanaCards) =
            sessionState'.totalAttempts - sessionState.totalAttempts]_vars

(***************************************************************************)
(* C37  whenever the enemy is flagged as about to die or as defeated, a    *)
(* new enemy is spawned at last: both flags are false again, the attempt   *)
(* counter is 0 and an attack prompt is the current prompt.  This holds    *)
(* when every pending timer fires at last, also when the defeat effect ran *)
(* again and set one more timer.                                           *)
(***************************************************************************)
\* spawnNewEnemy has run and the prompt effect has generated an attack prompt
NewEnemySpawned ==
  /\ ~enemyWillDie
  /\ ~enemyDefeated
  /\ promptAttempt = 0
  /\ promptType = "attack"
  /\ Len(currentPrompt) > 0

C38_SpawnFrame ==
  [][lastEvent' = "respawn" =>
       /\ UNCHANGED <<playerLives, combo, isGameOver, kanaCards, storage>>
       /\ sessionState' =
            [sessionState EXCEPT !.enemiesDefeated = sessionState.enemiesDefeated + 1]
       /\ currentEnemy' \in NewEnemies
       /\ promptAttempt' = 0
       /\ ~enemyDefeated'
       /\ ~enemyWillDie']_vars

\* an enemy was replaced in a session that had lost a life, held a combo
\* and had answers in its totals and in its ledger
C38_Witness ==
  /\ lastEvent = "respawn"
  /\ playerLives < InitialLives
  /\ combo > 0
  /\ sessionState.totalCorrect > 0
  /\ sessionState.totalAttempts > sessionState.totalCorrect
  /\ \E id \in DOMAIN kanaCards : kanaCards[id].totalShown > 0

(***************************************************************************)
(* C39  the cached word filter is coherent: after any sequence of calls of *)
(* getAvailableWords with any sets of kana, the empty set on the first     *)
(* call and different sets of equal size included, the words returned are  *)
(* the words of the corpus that canFormWord accepts for the argument of    *)
(* the last call.                                                          *)
(***************************************************************************)
\* the corpus filtered anew by canFormWord
freshFilter(availableKana) ==
  [hiragana |-> {wordKana \in hiraganaWords : canFormWord(wordKana, availableKana)},
   katakana |-> {wordKana \in katakanaWords : canFormWord(wordKana, availableKana)}]

CoherentForKana ==
  (lastEvent = "getAvailableWords" /\ Len(cachedAvailableKanaIds) > 0)
    => cachedAvailableWords = freshFilter(sessionState.selectedKanaIds)

(***************************************************************************)
(* C40  the inline loop of checkAnswers and validateInputWithDetails are   *)
(* equivalent: for every prompt and every input that both of them judge,   *)
(* they yield the same correctness of every character, the same number of  *)
(* correct characters and the same all-correct verdict.                    *)
(***************************************************************************)
\* matches.filter((m) => m).length
correctCountOf(ms) == Cardinality({i \in 1..Len(ms) : ms[i]})

C40_MatchersEquivalent ==
  (pc = "done" /\ validated.called /\ checked.called) =>
    /\ checked.matches = validated.matches
    /\ checked.correctCount = correctCountOf(validated.matches)
    /\ checked.allCorrect = validated.allCorrect

\* the two matchers agree on every character and on the count
MatchersAgreePerCharacter ==
  (pc = "done" /\ validated.called /\ checked.called) =>
    /\ checked.matches = validated.matches
    /\ checked.correctCount = correctCountOf(validated.matches)

============================================================================
